---- MODULE Spec2Model ----
(***************************************************************************)
(* A model of middlewared/schema.py: the attribute hierarchy (clean and    *)
(* validate), and the parameter binder `accepts`.                          *)
(*                                                                         *)
(* Python values are tagged records of one shape, so that any two values   *)
(* can be compared.  Lists and dicts live in a heap and are held by        *)
(* reference: clean rewrites them in place, as the code does.  A Python    *)
(* str is a sequence of one-character strings, so that str(), isdigit()    *)
(* and int() are computed and not assumed.                                 *)
(***************************************************************************)
EXTENDS Integers, Sequences, FiniteSets, TLC

(***************************************************************************)
(* Bounds of the model.                                                    *)
(***************************************************************************)
\* Largest number of attributes a wrapped method declares.
MaxParams == 2
\* Largest integer digit drawn as an input value.
MaxInt == 1

\* The longest string of the generated input strings, and the longest list
\* of the input lists.
MaxStrLen == 2

MaxListLen == 2

\* `LET r == val IN Op(r)`, with val computed once however often Op reads r.
Bind(val, Op(_)) == CHOOSE out \in {Op(r) : r \in {val}} : TRUE

(***************************************************************************)
(* Python values.                                                          *)
(***************************************************************************)
NOT_PROVIDED == [t |-> "np", n |-> 0, s |-> <<>>]

None == [t |-> "none", n |-> 0, s |-> <<>>]

VInt(n) == [t |-> "int", n |-> n, s |-> <<>>]

\* bool is a subclass of int: True == 1, False == 0.
VBool(b) == [t |-> "bool", n |-> IF b THEN 1 ELSE 0, s |-> <<>>]

VStr(s) == [t |-> "str", n |-> 0, s |-> s]

\* The float n.0
VFloat(n) == [t |-> "float", n |-> n, s |-> <<>>]

\* A reference to the list or dict at address a of the heap.
VRef(a) == [t |-> "ref", n |-> a, s |-> <<>>]

\* An object of the heap: a dict is its items in insertion order, a list is
\* its elements (each with the key "").
PyDict(items) == [kind |-> "dict", items |-> items]

PyList(elems) == [kind |-> "list", items |-> [j \in 1..Len(elems) |-> [k |-> "", v |-> elems[j]]]]

\* What has been set on an attribute object since its construction: the
\* part of its __dict__ that __init__ did not write, as items.
PyInstance == [kind |-> "instance", items |-> <<>>]

Item(k, v) == [k |-> k, v |-> v]

IsList(h, v) == v.t = "ref" /\ h[v.n].kind = "list"

IsDict(h, v) == v.t = "ref" /\ h[v.n].kind = "dict"

\* isinstance(value, int): bool is an int.
IsInt(v) == v.t \in {"int", "bool"}

Keys(o) == {o.items[j].k : j \in 1..Len(o.items)}

\* data[key] for a key that is present.
GetItem(o, key) == o.items[CHOOSE j \in 1..Len(o.items) : o.items[j].k = key].v

\* data[key] = value: a present key keeps its place, a new one goes last.
SetItem(o, key, value) ==
    IF key \in Keys(o)
    THEN [o EXCEPT !.items = [j \in 1..Len(o.items) |->
                                IF o.items[j].k = key THEN Item(key, value) ELSE o.items[j]]]
    ELSE [o EXCEPT !.items = Append(o.items, Item(key, value))]

\* Python's == on scalars: True == 1 == 1.0, 1 != "1".
ScalarEq(a, b) ==
    IF a.t \in {"int", "bool", "float"} /\ b.t \in {"int", "bool", "float"}
    THEN a.n = b.n ELSE a = b

RECURSIVE DeepCopy(_, _), DeepCopyItems(_, _, _)
\* copy.deepcopy(v) in heap h: [h |-> the heap after, v |-> the copy].
DeepCopy(h, v) ==
    IF v.t # "ref" THEN [h |-> h, v |-> v]
    ELSE Bind(DeepCopyItems(h, h[v.n].items, 1), LAMBDA r :
             [h |-> Append(r.h, [kind |-> h[v.n].kind, items |-> r.items]),
              v |-> VRef(Len(r.h) + 1)])

DeepCopyItems(h, items, j) ==
    IF j > Len(items) THEN [h |-> h, items |-> items]
    ELSE Bind(DeepCopy(h, items[j].v), LAMBDA c :
             Bind([items EXCEPT ![j].v = c.v], LAMBDA copied :
                 DeepCopyItems(c.h, copied, j + 1)))

RECURSIVE Deep(_, _)
\* The value v of heap h with every reference replaced by what it holds:
\* structural equality of two values is equality of their Deep forms.
Deep(h, v) ==
    IF v.t # "ref" THEN [t |-> v.t, n |-> v.n, s |-> v.s, items |-> <<>>]
    ELSE [t |-> h[v.n].kind, n |-> 0, s |-> <<>>,
          items |-> [j \in 1..Len(h[v.n].items) |->
                       [k |-> h[v.n].items[j].k, v |-> Deep(h, h[v.n].items[j].v)]]]

RECURSIVE Reach(_, _)
\* The addresses reachable from value v.
Reach(h, v) ==
    IF v.t # "ref" THEN {}
    ELSE {v.n} \cup UNION {Reach(h, h[v.n].items[j].v) : j \in 1..Len(h[v.n].items)}

(***************************************************************************)
(* str(int), str.isdigit() and int(str).                                   *)
(***************************************************************************)
DigitChars == <<"0", "1", "2", "3", "4", "5", "6", "7", "8", "9">>

IsDigitChar(c) == \E d \in 1..Len(DigitChars) : DigitChars[d] = c

DigitVal(c) == (CHOOSE d \in 1..Len(DigitChars) : DigitChars[d] = c) - 1

RECURSIVE NatToStr(_)
NatToStr(n) ==
    IF n < Len(DigitChars) THEN <<DigitChars[n + 1]>>
    ELSE Append(NatToStr(n \div Len(DigitChars)), DigitChars[(n % Len(DigitChars)) + 1])

\* str(n)
IntToStr(n) == IF n < 0 THEN <<"-">> \o NatToStr(-n) ELSE NatToStr(n)

\* s.isdigit(): non-empty and every character a digit.
IsDigit(s) == Len(s) > 0 /\ \A j \in 1..Len(s) : IsDigitChar(s[j])

RECURSIVE StrToInt(_, _)
\* int(s, base) for a string of digits below the base.
StrToInt(s, base) ==
    IF Len(s) = 0 THEN 0
    ELSE StrToInt(SubSeq(s, 1, Len(s) - 1), base) * base + DigitVal(s[Len(s)])

(***************************************************************************)
(* Exceptions and the result of a call.                                    *)
(***************************************************************************)
NoExc ==
    [type |-> "", attribute |-> "", errmsg |-> "", index |-> -1, cause |-> <<>>,
     errors |-> <<>>]

\* class Error(Exception): attribute, errmsg.  A message the code formats
\* from a value keeps its fixed part; the index and the cause of List.clean's
\* message are fields.
Error(attribute, errmsg) ==
    [NoExc EXCEPT !.type = "Error", !.attribute = attribute, !.errmsg = errmsg]

\* return v, in heap h
Ret(h, v) == [h |-> h, ok |-> TRUE, v |-> v, exc |-> NoExc]

\* raise e, in heap h (what was written in place before the raise stays)
Raise(h, e) == [h |-> h, ok |-> FALSE, v |-> None, exc |-> e]

(***************************************************************************)
(* Attributes.  An attribute is a record; List.items and Dict.attrs are    *)
(* the sequence `items` of child attributes, in declaration order.  The    *)
(* title is `title or name`; the description "" is the description None    *)
(* (the code only reads it as `if self.description`).                      *)
(***************************************************************************)
Attribute(cls, name) ==
    [cls |-> cls, name |-> name, title |-> name, description |-> "",
     has_default |-> FALSE, default |-> None,
     required |-> FALSE, null |-> FALSE, empty |-> TRUE, validators |-> <<>>,
     has_enum |-> FALSE, enum |-> <<>>, items |-> <<>>, unique |-> FALSE,
     additional_attrs |-> FALSE, update |-> FALSE, cidr |-> FALSE,
     network |-> FALSE, allow_zone_index |-> FALSE, instance |-> 0, register |-> FALSE]

StrClasses == {"Str", "Dir", "File", "IPAddr", "UnixPerm"}

DictClasses == {"Dict", "Cron"}

\* self.attrs.get(key): the children named key (none, or one).
AttrsGet(self, key) == {j \in 1..Len(self.items) : self.items[j].name = key}

\* Attribute.clean with the default consulted before the null flag.
AttributeCleanDefaultFirst(self, h, value) ==
    IF value \in {None, NOT_PROVIDED} /\ self.has_default
    THEN Bind(DeepCopy(h, self.default), LAMBDA c : Ret(c.h, c.v))
    ELSE IF value = None /\ ~self.null THEN Raise(h, Error(self.name, "null not allowed"))
    ELSE IF value = NOT_PROVIDED THEN Raise(h, Error(self.name, "attribute required"))
    ELSE Ret(h, value)

\* Attribute.clean with `return self.default` for its deep copy.
AttributeCleanShared(self, h, value) ==
    IF value = None /\ ~self.null THEN Raise(h, Error(self.name, "null not allowed"))
    ELSE IF value = NOT_PROVIDED
         THEN IF self.has_default
              THEN Ret(h, self.default)
              ELSE Raise(h, Error(self.name, "attribute required"))
         ELSE Ret(h, value)

\* Attribute.clean with an absent value without default read as None.
AttributeCleanOptional(self, h, value) ==
    IF value = None /\ ~self.null THEN Raise(h, Error(self.name, "null not allowed"))
    ELSE IF value = NOT_PROVIDED
         THEN IF self.has_default
              THEN Bind(DeepCopy(h, self.default), LAMBDA c : Ret(c.h, c.v))
              ELSE Ret(h, None)
         ELSE Ret(h, value)

\* Attribute.clean
AttributeClean(self, h, value) ==
    IF value = None /\ ~self.null THEN Raise(h, Error(self.name, "null not allowed"))
    ELSE IF value = NOT_PROVIDED
         THEN IF self.has_default
              THEN Bind(DeepCopy(h, self.default), LAMBDA c : Ret(c.h, c.v))
              ELSE Raise(h, Error(self.name, "attribute required"))
         ELSE Ret(h, value)

\* EnumMixin.clean: the check reads the value Attribute.clean returned, before
\* the subclass coerces it.
EnumMixinClean(self, h, value) ==
    Bind(AttributeClean(self, h, value), LAMBDA r :
        IF ~r.ok \/ ~self.has_enum THEN r
        ELSE Bind(IF IsList(r.h, r.v)
                  THEN [j \in 1..Len(r.h[r.v.n].items) |-> r.h[r.v.n].items[j].v]
                  ELSE <<r.v>>, LAMBDA tmp :
                 IF \E j \in 1..Len(tmp) :
                        \A e \in 1..Len(self.enum) : ~ScalarEq(tmp[j], self.enum[e])
                 THEN Raise(r.h, Error(self.name, "Invalid choice"))
                 ELSE r))

\* Str.clean
StrClean(self, h, value) ==
    Bind(EnumMixinClean(self, h, value), LAMBDA r :
        IF ~r.ok \/ r.v = None THEN r
        ELSE Bind(IF r.v.t = "int" THEN VStr(IntToStr(r.v.n)) ELSE r.v, LAMBDA v :
                 IF v.t # "str" THEN Raise(r.h, Error(self.name, "Not a string"))
                 ELSE IF ~self.empty /\ Len(v.s) = 0
                      THEN Raise(r.h, Error(self.name, "Empty value not allowed"))
                 ELSE Ret(r.h, v)))

\* Bool.clean
BoolClean(self, h, value) ==
    Bind(AttributeClean(self, h, value), LAMBDA r :
        IF ~r.ok \/ r.v = None THEN r
        ELSE IF r.v.t # "bool" THEN Raise(r.h, Error(self.name, "Not a boolean"))
        ELSE r)

\* Int.clean
IntClean(self, h, value) ==
    Bind(EnumMixinClean(self, h, value), LAMBDA r :
        IF ~r.ok \/ r.v = None THEN r
        ELSE IF r.v.t # "int"
             THEN IF r.v.t = "str" /\ IsDigit(r.v.s)
                  THEN Ret(r.h, VInt(StrToInt(r.v.s, Len(DigitChars))))
                  ELSE Raise(r.h, Error(self.name, "Not an integer"))
        ELSE r)

\* Float.clean
FloatClean(self, h, value) ==
    Bind(EnumMixinClean(self, h, value), LAMBDA r :
        IF ~r.ok THEN r
        ELSE IF r.v = None /\ ~self.required THEN Ret(r.h, self.default)
        ELSE IF r.v.t \in {"int", "float"} THEN Ret(r.h, VFloat(r.v.n))
        ELSE IF r.v.t = "str" /\ IsDigit(r.v.s)
             THEN Ret(r.h, VFloat(StrToInt(r.v.s, Len(DigitChars))))
        ELSE Raise(r.h, Error(self.name, "Not a floating point number")))

RECURSIVE Clean(_, _, _), ListCleanCandidates(_, _, _, _, _, _, _), ListCleanItems(_, _, _, _)
RECURSIVE DictCleanItems(_, _, _, _, _), DictCleanDefaults(_, _, _, _)

\* List.clean, the loop over the candidates `for i in self.items` for the
\* element v at `index`: a success stores the result and goes on to the next
\* candidate, a failure keeps the error and breaks.  found is [ok, exc].
ListCleanCandidates(self, h, ref, index, v, c, found) ==
    IF c > Len(self.items) THEN [h |-> h, found |-> found]
    ELSE Bind(Clean(self.items[c], h, v), LAMBDA r :
             IF r.ok
             THEN Bind([r.h EXCEPT ![ref.n].items[index].v = r.v], LAMBDA stored :
                      ListCleanCandidates(self, stored, ref, index, v, c + 1,
                                          [ok |-> TRUE, exc |-> NoExc]))
             ELSE [h |-> r.h, found |-> [ok |-> FALSE, exc |-> r.exc]])

\* List.clean, the loop `for index, v in enumerate(value)`.  The index of
\* the message is the code's, from 0.
ListCleanItems(self, h, ref, index) ==
    IF index > Len(h[ref.n].items) THEN Ret(h, ref)
    ELSE Bind(ListCleanCandidates(self, h, ref, index, h[ref.n].items[index].v, 1,
                                  [ok |-> FALSE, exc |-> NoExc]), LAMBDA r :
             IF ~r.found.ok
             THEN Raise(r.h, [Error(self.name, "Item is not valid per list types")
                                EXCEPT !.index = index - 1,
                                       !.cause = <<r.found.exc.attribute, r.found.exc.errmsg>>])
             ELSE ListCleanItems(self, r.h, ref, index + 1))

\* List.clean
ListClean(self, h, value) ==
    Bind(EnumMixinClean(self, h, value), LAMBDA r :
        IF ~r.ok THEN r
        ELSE IF r.v = None THEN Bind(DeepCopy(r.h, self.default), LAMBDA c : Ret(c.h, c.v))
        ELSE IF ~IsList(r.h, r.v) THEN Raise(r.h, Error(self.name, "Not a list"))
        ELSE IF ~self.empty /\ Len(r.h[r.v.n].items) = 0
             THEN Raise(r.h, Error(self.name, "Empty value not allowed"))
        ELSE IF Len(self.items) > 0 THEN ListCleanItems(self, r.h, r.v, 1)
        ELSE r)

\* The loop of Dict.clean without `if key not in self.attrs: raise`.
DictCleanItemsAnyKey(self, h, ref, snap, j) ==
    IF j > Len(snap) THEN Ret(h, ref)
    ELSE Bind(AttrsGet(self, snap[j].k), LAMBDA got :
             IF got = {} THEN DictCleanItems(self, h, ref, snap, j + 1)
             ELSE Bind(Clean(self.items[CHOOSE c \in got : TRUE], h, snap[j].v), LAMBDA r :
                      IF ~r.ok THEN r
                      ELSE Bind([r.h EXCEPT ![ref.n] = SetItem(r.h[ref.n], snap[j].k, r.v)],
                                LAMBDA stored : DictCleanItems(self, stored, ref, snap, j + 1))))

\* Dict.clean, the loop `for key, value in list(data.items())` over the
\* snapshot `snap` taken before the loop.
DictCleanItems(self, h, ref, snap, j) ==
    IF j > Len(snap) THEN Ret(h, ref)
    ELSE Bind(AttrsGet(self, snap[j].k), LAMBDA got :
             IF ~self.additional_attrs /\ got = {}
             THEN Raise(h, Error(snap[j].k, "Field was not expected"))
             ELSE IF got = {} THEN DictCleanItems(self, h, ref, snap, j + 1)
             ELSE Bind(Clean(self.items[CHOOSE c \in got : TRUE], h, snap[j].v), LAMBDA r :
                      IF ~r.ok THEN r
                      ELSE Bind([r.h EXCEPT ![ref.n] = SetItem(r.h[ref.n], snap[j].k, r.v)],
                                LAMBDA stored : DictCleanItems(self, stored, ref, snap, j + 1))))

\* Dict.clean without its loop over self.attrs.
DictCleanNoDefaults(self, h, ref, c) == Ret(h, ref)

\* Dict.clean, the loop `for attr in list(self.attrs.values())` that fills in
\* the absent children.
DictCleanDefaults(self, h, ref, c) ==
    IF c > Len(self.items) THEN Ret(h, ref)
    ELSE Bind(self.items[c], LAMBDA attr :
             IF attr.name \notin Keys(h[ref.n]) /\ (attr.required \/ attr.has_default)
             THEN Bind(Clean(attr, h, NOT_PROVIDED), LAMBDA r :
                      IF ~r.ok THEN r
                      ELSE Bind([r.h EXCEPT ![ref.n] = SetItem(r.h[ref.n], attr.name, r.v)],
                                LAMBDA stored : DictCleanDefaults(self, stored, ref, c + 1)))
             ELSE DictCleanDefaults(self, h, ref, c + 1))

\* `self.errors = []` of Dict.clean: a new list, set on the attribute object.
SetErrors(self, h) ==
    Bind(Append(h, PyList(<<>>)), LAMBDA a :
        [a EXCEPT ![self.instance] = SetItem(@, "errors", VRef(Len(a)))])

\* Dict.clean
DictClean(self, h, data) ==
    Bind(AttributeClean(self, h, data), LAMBDA r :
        IF ~r.ok THEN r
        ELSE IF r.v = None THEN Bind(DeepCopy(r.h, self.default), LAMBDA c : Ret(c.h, c.v))
        ELSE Bind(SetErrors(self, r.h), LAMBDA w :
            IF ~IsDict(w, r.v) THEN Raise(w, Error(self.name, "A dict was expected"))
            ELSE Bind(DictCleanItems(self, w, r.v, w[r.v.n].items, 1), LAMBDA l :
                     IF ~l.ok \/ self.update THEN l
                     ELSE DictCleanDefaults(self, l.h, r.v, 1))))

\* attr.clean(value): the clean of the attribute's class.
Clean(self, h, value) ==
    CASE self.cls \in StrClasses -> StrClean(self, h, value)
      [] self.cls = "Int" -> IntClean(self, h, value)
      [] self.cls = "Bool" -> BoolClean(self, h, value)
      [] self.cls = "Float" -> FloatClean(self, h, value)
      [] self.cls = "List" -> ListClean(self, h, value)
      [] self.cls \in DictClasses -> DictClean(self, h, value)
      [] OTHER -> AttributeClean(self, h, value)

(***************************************************************************)
(* ValidationErrors (middlewared.service_exception): a list of entries     *)
(* (attribute path, message, code), truthy only when non-empty.            *)
(***************************************************************************)
\* One entry of a ValidationErrors; the code is the errno's name.
Entry(attribute, errmsg, errno) == [attribute |-> attribute, errmsg |-> errmsg, errno |-> errno]

\* verrors.add(attribute, errmsg, errno)
Add(errors, attribute, errmsg, errno) == Append(errors, Entry(attribute, errmsg, errno))

\* verrors.add_child(attribute, child): every entry of child under the prefix.
AddChild(errors, attribute, child) ==
    errors \o [j \in 1..Len(child) |->
                 Entry(attribute \o "." \o child[j].attribute, child[j].errmsg, child[j].errno)]

\* verrors.extend(child)
Extend(errors, child) == errors \o child

\* raise verrors
ValidationErrors(errors) == [NoExc EXCEPT !.type = "ValidationErrors", !.errors = errors]

\* `if verrors: raise verrors`, else go on with `rest`.
RaiseIf(errors, rest) ==
    Bind(errors, LAMBDA raising : IF Len(raising) > 0 THEN ValidationErrors(raising) ELSE rest)

\* An exception of Python itself (TypeError, IndexError).
PyExc(type) == [NoExc EXCEPT !.type = type]

(***************************************************************************)
(* validate.  The result is the exception raised, NoExc for a return.      *)
(* What the code asks of the file system, of ipaddress and of croniter is  *)
(* the environment env: the sets of strings for which the answer is yes.   *)
(* A validator is [errmsg, rejects]: it raises ValueError(errmsg) on the   *)
(* values of rejects.                                                      *)
(***************************************************************************)
RECURSIVE AttributeValidateFrom(_, _, _, _, _)
\* Attribute.validate, the loop `for validator in self.validators`.
AttributeValidateFrom(self, h, value, j, errors) ==
    IF j > Len(self.validators) THEN errors
    ELSE Bind(IF Deep(h, value) \in self.validators[j].rejects
              THEN Add(errors, self.name, self.validators[j].errmsg, "EINVAL")
              ELSE errors, LAMBDA added :
             AttributeValidateFrom(self, h, value, j + 1, added))

\* Attribute.validate
AttributeValidate(self, h, value) ==
    Bind(AttributeValidateFrom(self, h, value, 1, <<>>), LAMBDA errors :
        RaiseIf(errors, NoExc))

\* `if value:` for a str
Truthy(value) == ~(value.t = "str" /\ Len(value.s) = 0)

\* Dir.validate
DirValidate(self, h, value, env) ==
    IF value = None THEN NoExc
    ELSE RaiseIf(IF ~Truthy(value) THEN <<>>
                 ELSE IF value.s \notin env.exists
                      THEN Add(<<>>, self.name, "This path does not exist.", "ENOENT")
                 ELSE IF value.s \notin env.isdir
                      THEN Add(<<>>, self.name, "This path is not a directory.", "ENOTDIR")
                 ELSE <<>>,
                 AttributeValidate(self, h, value))

\* File.validate
FileValidate(self, h, value, env) ==
    IF value = None THEN NoExc
    ELSE RaiseIf(IF ~Truthy(value) THEN <<>>
                 ELSE IF value.s \notin env.exists
                      THEN Add(<<>>, self.name, "This path does not exist.", "ENOENT")
                 ELSE IF value.s \notin env.isfile
                      THEN Add(<<>>, self.name, "This path is not a file.", "EISDIR")
                 ELSE <<>>,
                 AttributeValidate(self, h, value))

\* c in s
Contains(s, c) == \E j \in 1..Len(s) : s[j] = c

\* s[:s.rindex(c)] for a string that contains c
BeforeLast(s, c) ==
    SubSeq(s, 1, (CHOOSE j \in 1..Len(s) : s[j] = c /\ \A k \in (j + 1)..Len(s) : s[k] # c) - 1)

\* IPAddr.validate: the ValueError raised inside the try, "" for none.
IPAddrValueError(self, value, env) ==
    IF self.network
    THEN IF value.s \in env.ip THEN "" ELSE "does not appear to be an IPv4 or IPv6 network"
    ELSE IF self.cidr /\ ~Contains(value.s, "/")
         THEN "Specified address should be in CIDR notation, e.g. 192.168.0.2/24"
    ELSE Bind(self.allow_zone_index /\ Contains(value.s, "%"), LAMBDA has_zone_index :
             Bind(IF has_zone_index THEN BeforeLast(value.s, "%") ELSE value.s, LAMBDA addr :
                 IF addr \notin env.ip THEN "does not appear to be an IPv4 or IPv6 address"
                 ELSE IF has_zone_index /\ addr \notin env.ipv6
                      THEN "Zone index is allowed only for IPv6 addresses"
                 ELSE ""))

\* IPAddr.validate
IPAddrValidate(self, h, value, env) ==
    IF value = None THEN NoExc
    ELSE RaiseIf(IF Truthy(value) /\ IPAddrValueError(self, value, env) # ""
                 THEN Add(<<>>, self.name, IPAddrValueError(self, value, env), "EINVAL")
                 ELSE <<>>,
                 AttributeValidate(self, h, value))

OctalChars == SubSeq(DigitChars, 1, 8)

\* int(value, 8) raises ValueError
NotOctal(s) == Len(s) = 0 \/ \E j \in 1..Len(s) : ~Contains(OctalChars, s[j])

\* UnixPerm.validate
UnixPermValidate(self, h, value) ==
    IF value = None THEN NoExc
    ELSE IF NotOctal(value.s)
         THEN Error("mode", "Not a valid integer. Must be between 000 and 777")
    ELSE IF StrToInt(value.s, Len(OctalChars)) >= Len(OctalChars) * Len(OctalChars) * Len(OctalChars)
         THEN Error("mode", "Please supply a value between 000 and 777")
    ELSE AttributeValidate(self, h, value)

RECURSIVE Validate(_, _, _, _), ListValidateCandidates(_, _, _, _, _, _, _)
RECURSIVE ListValidateItems(_, _, _, _, _, _), DictValidateAttrs(_, _, _, _, _, _)

\* List.validate, the loop `for attr in self.items` for the element v under
\* the path prefix: [errors, exc], exc an exception that is not caught.
ListValidateCandidates(self, h, v, env, prefix, c, errors) ==
    IF c > Len(self.items) THEN [errors |-> errors, exc |-> NoExc]
    ELSE Bind(Validate(self.items[c], h, v, env), LAMBDA e :
             IF e.type = "ValidationErrors"
             THEN Bind(AddChild(errors, prefix, e.errors), LAMBDA added :
                      ListValidateCandidates(self, h, v, env, prefix, c + 1, added))
             ELSE IF e.type # "" THEN [errors |-> errors, exc |-> e]
             ELSE ListValidateCandidates(self, h, v, env, prefix, c + 1, errors))

\* List.validate, the loop `for i, v in enumerate(value)`; the set s holds
\* the elements before v.  A list or dict element cannot be hashed.
ListValidateItems(self, h, value, env, j, errors) ==
    IF j > Len(h[value.n].items) THEN [errors |-> errors, exc |-> NoExc]
    ELSE Bind([v |-> h[value.n].items[j].v, prefix |-> self.name \o "." \o ToString(j - 1)],
              LAMBDA at :
             IF self.unique /\ at.v.t = "ref"
             THEN [errors |-> errors, exc |-> PyExc("TypeError")]
             ELSE Bind(IF self.unique
                          /\ \E k \in 1..(j - 1) : ScalarEq(h[value.n].items[k].v, at.v)
                       THEN Add(errors, at.prefix, "This value is not unique.", "EINVAL")
                       ELSE errors, LAMBDA errs :
                      Bind(ListValidateCandidates(self, h, at.v, env, at.prefix, 1, errs),
                           LAMBDA r :
                          IF r.exc.type # "" THEN r
                          ELSE ListValidateItems(self, h, value, env, j + 1, r.errors))))

\* List.validate
ListValidate(self, h, value, env) ==
    IF value = None THEN NoExc
    ELSE Bind(ListValidateItems(self, h, value, env, 1, <<>>), LAMBDA r :
             IF r.exc.type # "" THEN r.exc
             ELSE RaiseIf(r.errors, AttributeValidate(self, h, value)))

RECURSIVE DictValidateAttrsStop(_, _, _, _, _, _)
\* The loop of Dict.validate leaving at the first child that fails.
DictValidateAttrsStop(self, h, value, env, c, errors) ==
    IF c > Len(self.items) \/ Len(errors) > 0 THEN [errors |-> errors, exc |-> NoExc]
    ELSE IF self.items[c].name \notin Keys(h[value.n])
         THEN DictValidateAttrsStop(self, h, value, env, c + 1, errors)
    ELSE Bind(Validate(self.items[c], h, GetItem(h[value.n], self.items[c].name), env),
              LAMBDA e :
             IF e.type = "ValidationErrors"
             THEN [errors |-> AddChild(errors, self.name, e.errors), exc |-> NoExc]
             ELSE IF e.type # "" THEN [errors |-> errors, exc |-> e]
             ELSE DictValidateAttrsStop(self, h, value, env, c + 1, errors))

\* Dict.validate and Cron.validate, the loop `for attr in self.attrs.values()`.
DictValidateAttrs(self, h, value, env, c, errors) ==
    IF c > Len(self.items) THEN [errors |-> errors, exc |-> NoExc]
    ELSE IF self.items[c].name \notin Keys(h[value.n])
         THEN DictValidateAttrs(self, h, value, env, c + 1, errors)
    ELSE Bind(Validate(self.items[c], h, GetItem(h[value.n], self.items[c].name), env),
              LAMBDA e :
             IF e.type = "ValidationErrors"
             THEN Bind(AddChild(errors, self.name, e.errors), LAMBDA added :
                      DictValidateAttrs(self, h, value, env, c + 1, added))
             ELSE IF e.type # "" THEN [errors |-> errors, exc |-> e]
             ELSE DictValidateAttrs(self, h, value, env, c + 1, errors))

\* Dict.validate
DictValidate(self, h, value, env) ==
    IF value = None THEN NoExc
    ELSE Bind(DictValidateAttrs(self, h, value, env, 1, <<>>), LAMBDA r :
             IF r.exc.type # "" THEN r.exc ELSE RaiseIf(r.errors, NoExc))

\* Cron.FIELDS
FIELDS == <<"minute", "hour", "dom", "month", "dow">>

RECURSIVE CronUnexpected(_, _, _, _)
\* Cron.validate, the loop `for v in value` over the keys.
CronUnexpected(self, o, j, errors) ==
    IF j > Len(o.items) THEN errors
    ELSE Bind(IF Contains(FIELDS, o.items[j].k) THEN errors
              ELSE Add(errors, self.name, "Unexpected " \o o.items[j].k \o " value", "EINVAL"),
              LAMBDA added : CronUnexpected(self, o, j + 1, added))

\* Cron.validate, cron_expression: the five fields, "*" for one that is
\* absent or empty.
CronExpression(o) ==
    [f \in 1..Len(FIELDS) |->
        IF FIELDS[f] \in Keys(o) /\ Truthy(GetItem(o, FIELDS[f])) /\ GetItem(o, FIELDS[f]) # None
        THEN GetItem(o, FIELDS[f]).s ELSE <<"*">>]

\* Cron.validate: it has no `if value is None` and reads `attr.name in value`.
CronValidate(self, h, value, env) ==
    IF value = None THEN PyExc("TypeError")
    ELSE Bind(DictValidateAttrs(self, h, value, env, 1, <<>>), LAMBDA r :
             IF r.exc.type # "" THEN r.exc
             ELSE RaiseIf(CronUnexpected(self, h[value.n], 1, r.errors),
                      IF CronExpression(h[value.n]) \in env.cron THEN NoExc
                      ELSE ValidationErrors(Add(<<>>, self.name,
                               "Please ensure fields match cron syntax", "EINVAL"))))

\* attr.validate(value): the validate of the attribute's class.
Validate(self, h, value, env) ==
    CASE self.cls = "Dir" -> DirValidate(self, h, value, env)
      [] self.cls = "File" -> FileValidate(self, h, value, env)
      [] self.cls = "IPAddr" -> IPAddrValidate(self, h, value, env)
      [] self.cls = "UnixPerm" -> UnixPermValidate(self, h, value)
      [] self.cls = "List" -> ListValidate(self, h, value, env)
      [] self.cls = "Dict" -> DictValidate(self, h, value, env)
      [] self.cls = "Cron" -> CronValidate(self, h, value, env)
      [] OTHER -> AttributeValidate(self, h, value)

(***************************************************************************)
(* to_json_schema.  A document is a function of its keys.  A `type` is     *)
(* [list, of]: the one type name of `of` when list is FALSE, the list `of` *)
(* of type names when it is TRUE.  parent is TRUE when a parent is given.  *)
(* The result is [ok, v, exc]: the document returned or the exception.     *)
(***************************************************************************)
Bare(type) == [list |-> FALSE, of |-> <<type>>]

TypeList(types) == [list |-> TRUE, of |-> types]

\* schema[key] = value
Put(schema, key, value) ==
    [k \in DOMAIN schema \cup {key} |-> IF k = key THEN value ELSE schema[k]]

Rendered(schema) == [ok |-> TRUE, v |-> schema, exc |-> NoExc]

RenderFails(type) == [ok |-> FALSE, v |-> <<>>, exc |-> PyExc(type)]

\* `schema['description'] = self.description` under `if self.description`
PutDescription(self, schema) ==
    IF self.description # "" THEN Put(schema, "description", self.description) ELSE schema

\* The title, the description and the marker that the renderings set under
\* `if not parent`.
PutHeading(self, schema) ==
    Put(PutDescription(self, Put(schema, "title", self.title)), "_required_", self.required)

\* `schema['enum'] = self.enum` under `if self.enum is not None`
PutEnum(self, schema) == IF self.has_enum THEN Put(schema, "enum", self.enum) ELSE schema

\* The type, with "null" when the attribute is not required.
Nullable(self, type) ==
    IF ~self.required THEN TypeList(<<type, "null">>) ELSE Bare(type)

\* Any.to_json_schema
AnyToJsonSchema(self, parent) ==
    Bind(PutDescription(self,
             [anyOf |-> <<[type |-> Bare("string")], [type |-> Bare("integer")],
                          [type |-> Bare("boolean")], [type |-> Bare("object")],
                          [type |-> Bare("array")]>>,
              title |-> self.title]), LAMBDA schema :
        Rendered(IF ~parent THEN Put(schema, "_required_", self.required) ELSE schema))

\* Str.to_json_schema, which Dir, File and IPAddr inherit.
StrToJsonSchema(self, parent) ==
    Bind(IF ~parent THEN PutHeading(self, <<>>) ELSE <<>>, LAMBDA schema :
        Rendered(PutEnum(self, Put(schema, "type", Nullable(self, "string")))))

\* Bool.to_json_schema
BoolToJsonSchema(self, parent) ==
    Bind([type |-> Nullable(self, "boolean")], LAMBDA schema :
        Rendered(IF ~parent THEN PutHeading(self, schema) ELSE schema))

\* Int.to_json_schema
IntToJsonSchema(self, parent) ==
    Bind([type |-> Nullable(self, "integer")], LAMBDA schema :
        Rendered(IF ~parent THEN PutHeading(self, schema) ELSE schema))

\* Float.to_json_schema: `self.verbose` is an attribute that no Attribute has.
FloatToJsonSchema(self, parent) ==
    Bind([type |-> Nullable(self, "float")], LAMBDA schema :
        IF ~parent THEN RenderFails("AttributeError") ELSE Rendered(schema))

\* UnixPerm.to_json_schema
UnixPermToJsonSchema(self, parent) ==
    Bind([type |-> Nullable(self, "string")], LAMBDA schema :
        Rendered(IF ~parent THEN PutHeading(self, schema) ELSE schema))

RECURSIVE ToJsonSchema(_, _), ListJsonItems(_, _, _), DictJsonProperties(_, _, _)
\* List.to_json_schema, the loop `for i in self.items`: of a child type that
\* is a list only the first name is taken (`break`).
ListJsonItems(self, j, items) ==
    IF j > Len(self.items) THEN Rendered(items)
    ELSE Bind(ToJsonSchema(self.items[j], TRUE), LAMBDA child :
             IF ~child.ok THEN child
             ELSE IF "type" \notin DOMAIN child.v THEN RenderFails("KeyError")
             ELSE IF child.v.type.list
             THEN ListJsonItems(self, j + 1,
                      IF Len(child.v.type.of) > 0
                      THEN Append(items, [type |-> Bare(child.v.type.of[1])]) ELSE items)
             ELSE ListJsonItems(self, j + 1, Append(items, [type |-> child.v.type])))

\* List.to_json_schema: the type has "null" when the attribute is required.
ListToJsonSchema(self, parent) ==
    Bind(IF ~parent THEN PutHeading(self, [type |-> Bare("array")])
         ELSE [type |-> Bare("array")], LAMBDA headed :
        Bind(PutEnum(self, Put(headed, "type",
                 IF self.required THEN TypeList(<<"array", "null">>) ELSE Bare("array"))),
             LAMBDA schema :
                 Bind(ListJsonItems(self, 1, <<>>), LAMBDA items :
                     IF ~items.ok THEN items
                     ELSE Rendered(Put(schema, "items",
                              IF Len(items.v) = 0 THEN <<[type |-> Bare("null")]>>
                              ELSE items.v)))))

\* Dict.to_json_schema, the loop `for name, attr in list(self.attrs.items())`.
DictJsonProperties(self, j, properties) ==
    IF j > Len(self.items) THEN Rendered(properties)
    ELSE Bind(ToJsonSchema(self.items[j], TRUE), LAMBDA child :
             IF ~child.ok THEN child
             ELSE DictJsonProperties(self, j + 1, Put(properties, self.items[j].name, child.v)))

\* Dict.to_json_schema, which Cron inherits.
DictToJsonSchema(self, parent) ==
    Bind([type |-> Bare("object"), properties |-> <<>>,
          additionalProperties |-> self.additional_attrs], LAMBDA schema :
        Bind(DictJsonProperties(self, 1, <<>>), LAMBDA properties :
            IF ~properties.ok THEN properties
            ELSE Rendered(Put(IF ~parent THEN PutHeading(self, schema) ELSE schema,
                              "properties", properties.v))))

\* attr.to_json_schema(parent): the rendering of the attribute's class;
\* Attribute.to_json_schema raises NotImplementedError.
ToJsonSchema(self, parent) ==
    CASE self.cls \in {"Str", "Dir", "File", "IPAddr"} -> StrToJsonSchema(self, parent)
      [] self.cls = "UnixPerm" -> UnixPermToJsonSchema(self, parent)
      [] self.cls = "Int" -> IntToJsonSchema(self, parent)
      [] self.cls = "Bool" -> BoolToJsonSchema(self, parent)
      [] self.cls = "Float" -> FloatToJsonSchema(self, parent)
      [] self.cls = "List" -> ListToJsonSchema(self, parent)
      [] self.cls \in DictClasses -> DictToJsonSchema(self, parent)
      [] self.cls = "Any" -> AnyToJsonSchema(self, parent)
      [] OTHER -> RenderFails("NotImplementedError")

(***************************************************************************)
(* Input values.  A value is written as its Deep form and built into the   *)
(* heap, each list and dict at an address of its own.                      *)
(***************************************************************************)
\* The Deep form of a scalar, of a dict and of a list.
DScalar(v) == [t |-> v.t, n |-> v.n, s |-> v.s, items |-> <<>>]

DDict(items) == [t |-> "dict", n |-> 0, s |-> <<>>, items |-> items]

DList(elems) ==
    [t |-> "list", n |-> 0, s |-> <<>>,
     items |-> [j \in 1..Len(elems) |-> [k |-> "", v |-> elems[j]]]]

RECURSIVE Build(_, _), BuildItems(_, _, _)
\* The value of Deep form d allocated in heap h: [h, v].
Build(h, d) ==
    IF d.t \notin {"dict", "list"} THEN [h |-> h, v |-> [t |-> d.t, n |-> d.n, s |-> d.s]]
    ELSE Bind(BuildItems(h, d.items, 1), LAMBDA r :
             [h |-> Append(r.h, [kind |-> d.t, items |-> r.items]), v |-> VRef(Len(r.h) + 1)])

BuildItems(h, items, j) ==
    IF j > Len(items) THEN [h |-> h, items |-> items]
    ELSE Bind(Build(h, items[j].v), LAMBDA c :
             Bind([items EXCEPT ![j].v = c.v], LAMBDA built : BuildItems(c.h, built, j + 1)))

RECURSIVE BuildSeq(_, _, _)
\* The values of Deep forms ds, built one after the other from ds[j] on.
BuildSeq(h, ds, j) ==
    IF j > Len(ds) THEN [h |-> h, vs |-> <<>>]
    ELSE Bind(Build(h, ds[j]), LAMBDA c :
             Bind(BuildSeq(c.h, ds, j + 1), LAMBDA r : [h |-> r.h, vs |-> <<c.v>> \o r.vs]))

(***************************************************************************)
(* The conversions of Cron between a record with a `schedule` dict and the *)
(* flattened record of the database.  A record is a dict with every        *)
(* reference followed (DDict); the conversions change it in place and      *)
(* return nothing, so each gives the dict as it is afterwards.  The        *)
(* schedule is None or a dict.                                             *)
(***************************************************************************)
\* db_fields
DbFields == <<"minute", "hour", "daymonth", "month", "dayweek">>

\* data_dict.pop(key, None): the dict without the key.
Pop(d, key) == [d EXCEPT !.items = SelectSeq(d.items, LAMBDA it : it.k # key)]

\* `if schedule:` for None or a dict
ScheduleTruthy(schedule) == schedule.t = "dict" /\ Len(schedule.items) > 0

RECURSIVE ScheduleToDb(_, _, _), DbToScheduleKeep(_, _), DbToSchedule(_, _)
\* convert_schedule_to_db_format, the loop over Cron.FIELDS.
ScheduleToDb(d, schedule, index) ==
    IF index > Len(FIELDS) THEN d
    ELSE ScheduleToDb(IF FIELDS[index] \in Keys(schedule)
                      THEN SetItem(d, DbFields[index], GetItem(schedule, FIELDS[index]))
                      ELSE d, schedule, index + 1)

\* Cron.convert_schedule_to_db_format(data_dict)
ConvertScheduleToDbFormat(d) ==
    Bind(IF "schedule" \in Keys(d) THEN GetItem(d, "schedule") ELSE DScalar(None),
         LAMBDA schedule :
             IF ScheduleTruthy(schedule) THEN ScheduleToDb(Pop(d, "schedule"), schedule, 1)
             ELSE Pop(d, "schedule"))

\* The loop over db_fields with data_dict[field] for data_dict.pop(field).
DbToScheduleKeep(d, index) ==
    IF index > Len(DbFields) THEN d
    ELSE DbToSchedule(IF DbFields[index] \in Keys(d)
                      THEN SetItem(d, "schedule",
                               SetItem(GetItem(d, "schedule"), FIELDS[index],
                                       GetItem(d, DbFields[index])))
                      ELSE d, index + 1)

\* convert_db_format_to_schedule, the loop over db_fields.
DbToSchedule(d, index) ==
    IF index > Len(DbFields) THEN d
    ELSE DbToSchedule(IF DbFields[index] \in Keys(d)
                      THEN SetItem(Pop(d, DbFields[index]), "schedule",
                               SetItem(GetItem(d, "schedule"), FIELDS[index],
                                       GetItem(d, DbFields[index])))
                      ELSE d, index + 1)

\* Cron.convert_db_format_to_schedule(data_dict)
ConvertDbFormatToSchedule(d) == DbToSchedule(SetItem(d, "schedule", DDict(<<>>)), 1)

(***************************************************************************)
(* The schemas of the model.  A stored default that is a list or a dict is *)
(* an object of the heap from the start: StoredDefaults[k] is at address k.*)
(***************************************************************************)
StoredDefaults ==
    <<DDict(<<>>), DList(<<>>), DDict(<<>>), DDict(<<>>), DDict(<<>>), DDict(<<>>),
      DList(<<DScalar(VInt(1))>>), DDict(<<>>),
      DDict(<<Item("s", DScalar(VStr(<<"x">>)))>>), DDict(<<>>), DDict(<<>>),
      DDict(<<>>), DDict(<<>>),
      DList(<<DScalar(VInt(1))>>), DDict(<<>>), DDict(<<>>), DDict(<<>>),
      DDict(<<>>)>>

\* The Dict and Cron objects of the model.
Instances == 21

\* The address of the k-th of them.
Instance(k) == Len(StoredDefaults) + k

InitHeap == BuildSeq(<<>>, StoredDefaults, 1).h \o [k \in 1..Instances |-> PyInstance]

\* Int('a', required=True)
IntA == [Attribute("Int", "a") EXCEPT !.required = TRUE]

\* Int('b', default=10)
IntB == [Attribute("Int", "b") EXCEPT !.has_default = TRUE, !.default = VInt(10)]

\* Dict('data', Int('a', required=True), Int('b', default=10)); Dict.__init__
\* gives it the default {}.
DataDict ==
    [Attribute("Dict", "data") EXCEPT !.instance = Instance(1), !.items = <<IntA, IntB>>,
                                      !.has_default = TRUE, !.default = VRef(1)]

\* UnixPerm('mode')
ModePerm == Attribute("UnixPerm", "mode")

\* List('tags', items=[Int('tag')], unique=True, default=[])
TagsList ==
    [Attribute("List", "tags") EXCEPT !.items = <<Attribute("Int", "tag")>>, !.unique = TRUE,
                                      !.has_default = TRUE, !.default = VRef(2)]

\* Attribute('any')
AnyAttr == Attribute("Attribute", "any")

\* Str('name'), Str('sd', default='x'), Str('sn', null=True, default=None),
\* Str('ne', empty=False)
StrName == Attribute("Str", "name")

StrDefault == [Attribute("Str", "sd") EXCEPT !.has_default = TRUE, !.default = VStr(<<"x">>)]

StrNull == [Attribute("Str", "sn") EXCEPT !.null = TRUE, !.has_default = TRUE, !.default = None]

StrNonEmpty == [Attribute("Str", "ne") EXCEPT !.empty = FALSE]

\* Int('port', default='7'): a default that is not of the attribute's type.
IntPort == [Attribute("Int", "port") EXCEPT !.has_default = TRUE, !.default = VStr(<<"7">>)]

\* Bool('flag', default=False)
BoolFlag == [Attribute("Bool", "flag") EXCEPT !.has_default = TRUE, !.default = VBool(FALSE)]

\* Dir('dir'), File('file')
DirAttr == Attribute("Dir", "dir")

FileAttr == Attribute("File", "file")

\* IPAddr('ip'), IPAddr('net', network=True), IPAddr('cidr', cidr=True),
\* IPAddr('zone', allow_zone_index=True)
IpAttr == Attribute("IPAddr", "ip")

IpNetwork == [Attribute("IPAddr", "net") EXCEPT !.network = TRUE]

IpCidr == [Attribute("IPAddr", "cidr") EXCEPT !.cidr = TRUE]

IpZone == [Attribute("IPAddr", "zone") EXCEPT !.allow_zone_index = TRUE]

\* Dict('inner', Int('c', default=1))
InnerDict ==
    [Attribute("Dict", "inner") EXCEPT !.instance = Instance(2),
        !.items = <<[Attribute("Int", "c") EXCEPT !.has_default = TRUE, !.default = VInt(1)]>>,
        !.has_default = TRUE, !.default = VRef(3)]

\* Dict('outer', Int('a', required=True), Dict('inner', Int('c', default=1)))
OuterDict ==
    [Attribute("Dict", "outer") EXCEPT !.instance = Instance(3), !.items = <<IntA, InnerDict>>,
                                       !.has_default = TRUE, !.default = VRef(4)]

\* Dict('upd', Int('a', required=True), Int('b', default=10), update=True)
UpdateDict ==
    [Attribute("Dict", "upd") EXCEPT !.instance = Instance(4), !.items = <<IntA, IntB>>, !.update = TRUE,
                                     !.has_default = TRUE, !.default = VRef(5)]

\* Dict('extra', Int('b', default=10), additional_attrs=True)
ExtraDict ==
    [Attribute("Dict", "extra") EXCEPT !.instance = Instance(5), !.items = <<IntB>>, !.additional_attrs = TRUE,
                                       !.has_default = TRUE, !.default = VRef(6)]

\* List('ports', default=[1])
PortsList == [Attribute("List", "ports") EXCEPT !.has_default = TRUE, !.default = VRef(7)]

\* Cron('schedule'): Cron.__init__ declares a Str for each of FIELDS.
Schedule ==
    [Attribute("Cron", "schedule") EXCEPT !.instance = Instance(6),
        !.items = <<Attribute("Str", "minute"), Attribute("Str", "hour"), Attribute("Str", "dom"),
                    Attribute("Str", "month"), Attribute("Str", "dow")>>,
        !.has_default = TRUE, !.default = VRef(8)]

\* Dict('opts', Str('s'), default={'s': 'x'})
OptsDict ==
    [Attribute("Dict", "opts") EXCEPT !.instance = Instance(7), !.items = <<Attribute("Str", "s")>>,
                                      !.has_default = TRUE, !.default = VRef(9)]

\* Dict('both', Int('b', default=10), Dict('inner', Int('c', default=1)))
BothDict ==
    [Attribute("Dict", "both") EXCEPT !.instance = Instance(8), !.items = <<IntB, InnerDict>>,
                                      !.has_default = TRUE, !.default = VRef(10)]

\* Str('sv', null=True, validators=[v]), v raising ValueError('Not allowed')
\* for None and for 'x'.
StrChecked ==
    [Attribute("Str", "sv") EXCEPT
        !.null = TRUE,
        !.validators = <<[errmsg |-> "Not allowed",
                          rejects |-> {DScalar(None), DScalar(VStr(<<"x">>))}]>>]

\* Cron('cn', null=True, default=None)
CronNull ==
    [Attribute("Cron", "cn") EXCEPT !.instance = Instance(9),
        !.items = <<Attribute("Str", "minute"), Attribute("Str", "hour"), Attribute("Str", "dom"),
                    Attribute("Str", "month"), Attribute("Str", "dow")>>,
        !.null = TRUE, !.has_default = TRUE, !.default = None]

\* List('aliases', items=[IPAddr('address')], unique=True)
AliasesList ==
    [Attribute("List", "aliases") EXCEPT !.items = <<Attribute("IPAddr", "address")>>,
                                         !.unique = TRUE]

\* List('failover_aliases', items=[IPAddr('address')])
FailoverAliasesList ==
    [Attribute("List", "failover_aliases") EXCEPT !.items = <<Attribute("IPAddr", "address")>>]

\* Dict('interface_update', List('aliases', ...), List('failover_aliases', ...))
InterfaceUpdate ==
    [Attribute("Dict", "interface_update") EXCEPT !.instance = Instance(10),
        !.items = <<AliasesList, FailoverAliasesList>>,
        !.has_default = TRUE, !.default = VRef(11)]

\* Float('ratio', null=True, default=1.0)
FloatRatio ==
    [Attribute("Float", "ratio") EXCEPT !.null = TRUE, !.has_default = TRUE,
                                        !.default = VFloat(1)]

\* List('mixed', items=[Int('i'), Str('s')])
MixedList ==
    [Attribute("List", "mixed") EXCEPT !.items = <<Attribute("Int", "i"), Attribute("Str", "s")>>]

\* List('either', items=[Str('s', empty=False), Int('i')])
EitherList ==
    [Attribute("List", "either") EXCEPT !.items = <<[StrNonEmpty EXCEPT !.name = "s"],
                                                   Attribute("Int", "i")>>]

\* List('rows', items=[Dict('inner', ...)], unique=True)
RowsList == [Attribute("List", "rows") EXCEPT !.items = <<InnerDict>>, !.unique = TRUE]

\* List('modes', items=[UnixPerm('mode')])
ModesList == [Attribute("List", "modes") EXCEPT !.items = <<ModePerm>>]

\* Str('rs', required=True), Bool('rb', required=True),
\* Float('rf', required=True), List('rl', required=True)
StrRequired == [Attribute("Str", "rs") EXCEPT !.required = TRUE]

BoolRequired == [Attribute("Bool", "rb") EXCEPT !.required = TRUE]

FloatRequired == [Attribute("Float", "rf") EXCEPT !.required = TRUE]

ListRequired == [Attribute("List", "rl") EXCEPT !.required = TRUE]

\* Int('choice', enum=[1, 7]), Str('kind', enum=['1', 'x'])
IntChoice ==
    [Attribute("Int", "choice") EXCEPT !.has_enum = TRUE, !.enum = <<VInt(1), VInt(7)>>]

StrChoice ==
    [Attribute("Str", "kind") EXCEPT !.has_enum = TRUE,
                                     !.enum = <<VStr(<<"1">>), VStr(<<"x">>)>>]

\* Str('level', enum=[1]): an enum of integers on a Str
StrLevel == [Attribute("Str", "level") EXCEPT !.has_enum = TRUE, !.enum = <<VInt(1)>>]

\* Str('nk', null=True, enum=['x']), Int('ni', null=True), Bool('nb', null=True)
StrNullChoice ==
    [Attribute("Str", "nk") EXCEPT !.null = TRUE, !.has_enum = TRUE, !.enum = <<VStr(<<"x">>)>>]

IntNull == [Attribute("Int", "ni") EXCEPT !.null = TRUE]

BoolNull == [Attribute("Bool", "nb") EXCEPT !.null = TRUE]

\* List('nl', null=True, default=[1])
ListNull ==
    [Attribute("List", "nl") EXCEPT !.null = TRUE, !.has_default = TRUE, !.default = VRef(14)]

\* Dict('nd', Int('b', default=10), null=True)
DictNull ==
    [Attribute("Dict", "nd") EXCEPT !.instance = Instance(19), !.items = <<IntB>>, !.null = TRUE,
                                    !.has_default = TRUE, !.default = VRef(15)]

\* Dir('dc', validators=[v]), v raising ValueError('Not allowed') for 'x'
DirChecked ==
    [Attribute("Dir", "dc") EXCEPT
        !.validators = <<[errmsg |-> "Not allowed", rejects |-> {DScalar(VStr(<<"x">>))}]>>]

\* List('lv', unique=True, validators=[v]), v raising ValueError('Not allowed')
\* for [0, 0] and for [1]
ListChecked ==
    [Attribute("List", "lv") EXCEPT
        !.unique = TRUE,
        !.validators = <<[errmsg |-> "Not allowed",
                          rejects |-> {DList(<<DScalar(VInt(0)), DScalar(VInt(0))>>),
                                       DList(<<DScalar(VInt(1))>>)}]>>]

\* Dict('dv', Int('b', default=10), validators=[v]), v raising
\* ValueError('Not allowed') for {'b': 0}
DictChecked ==
    [Attribute("Dict", "dv") EXCEPT
        !.instance = Instance(20), !.items = <<IntB>>,
        !.has_default = TRUE, !.default = VRef(16),
        !.validators = <<[errmsg |-> "Not allowed",
                          rejects |-> {DDict(<<Item("b", DScalar(VInt(0)))>>)}]>>]

\* Cron('cv', validators=[v]), v raising ValueError('Not allowed') for
\* {'minute': '7'}
CronChecked ==
    [Attribute("Cron", "cv") EXCEPT
        !.instance = Instance(21), !.items = Schedule.items,
        !.has_default = TRUE, !.default = VRef(17),
        !.validators = <<[errmsg |-> "Not allowed",
                          rejects |-> {DDict(<<Item("minute", DScalar(VStr(<<"7">>)))>>)}]>>]

\* What the environment answers when nothing exists and nothing parses.
NoEnv == [exists |-> {}, isdir |-> {}, isfile |-> {}, ip |-> {}, ipv6 |-> {}, cron |-> {}]

(***************************************************************************)
(* Resolution.  The middleware's schemas: add_schema stores a schema under *)
(* its name and get_schema looks a name up; `published` is the log of the  *)
(* add_schema calls.  mw is [registry, published, heap].  A resolve        *)
(* returns [mw, v, self, exc]: v the value returned, self the object       *)
(* resolve was called on as it is afterwards (a List or Dict replaces its  *)
(* children in place), exc the exception raised.                           *)
(***************************************************************************)
\* No schema is registered.
NoSchemas == [n \in {} |-> None]

\* middleware.get_schema(name): None for a name that is not registered.
GetSchema(mw, name) == IF name \in DOMAIN mw.registry THEN mw.registry[name] ELSE None

\* middleware.add_schema(schema)
AddSchema(mw, schema) ==
    [mw EXCEPT !.registry = [n \in DOMAIN mw.registry \cup {schema.name} |->
                                IF n = schema.name THEN schema ELSE mw.registry[n]],
               !.published = Append(mw.published, schema.name)]

\* Ref(name)
Ref(name) == [cls |-> "Ref", name |-> name]

\* Patch(name, newname, *patches, register=register)
Patch(name, newname, patches, register) ==
    [cls |-> "Patch", name |-> name, newname |-> newname, patches |-> patches,
     register |-> register]

\* One (operation, patch) pair of a Patch.  patch is a dict, of which the
\* model keeps 'type', 'name', 'method' ("" when the key is absent) and, for
\* 'attr', its items `set`, for 'add' its other keys `set`; or it is the
\* attribute `attr` (isdict FALSE).
Operation(operation, isdict, type, name, method, attr, set) ==
    [operation |-> operation, isdict |-> isdict, type |-> type, name |-> name,
     method |-> method, attr |-> attr, set |-> set]

\* raise ResolverError(errmsg)
ResolverError(errmsg) == [NoExc EXCEPT !.type = "ResolverError", !.errmsg = errmsg]

\* raise ValueError(errmsg)
ValueError(errmsg) == [NoExc EXCEPT !.type = "ValueError", !.errmsg = errmsg]

\* isinstance(p, (Patch, Ref, Attribute))
IsSchema(p) == p.cls # "object"

RECURSIVE CopySchema(_, _), CopySchemaItems(_, _, _)
\* copy.deepcopy(schema) in heap h, [h, v]: a new object for the attribute
\* and for each of its children, and a copy of each stored default.
CopySchema(h, schema) ==
    IF schema.cls \in {"Ref", "Patch"} THEN [h |-> h, v |-> schema]
    ELSE Bind(DeepCopy(h, schema.default), LAMBDA d :
         Bind(DeepCopy(d.h, VRef(schema.instance)), LAMBDA o :
         Bind(CopySchemaItems(o.h, schema.items, 1), LAMBDA c :
             [h |-> c.h,
              v |-> [schema EXCEPT !.default = d.v, !.instance = o.v.n, !.items = c.items]])))

CopySchemaItems(h, items, j) ==
    IF j > Len(items) THEN [h |-> h, items |-> <<>>]
    ELSE Bind(CopySchema(h, items[j]), LAMBDA c :
             Bind(CopySchemaItems(c.h, items, j + 1), LAMBDA rest :
                 [h |-> rest.h, items |-> <<c.v>> \o rest.items]))

\* Attribute.resolve
AttributeResolve(self, mw) ==
    [mw |-> IF self.register THEN AddSchema(mw, self) ELSE mw,
     v |-> self, self |-> self, exc |-> NoExc]

RECURSIVE Resolve(_, _), ResolveItems(_, _, _)
\* The loop of List.resolve and of Dict.resolve from child c on:
\* self.items[index] = i.resolve(middleware).
ResolveItems(self, mw, c) ==
    IF c > Len(self.items) THEN [mw |-> mw, self |-> self, exc |-> NoExc]
    ELSE Bind(Resolve(self.items[c], mw), LAMBDA r :
             IF r.exc.type # ""
             THEN [mw |-> r.mw, self |-> [self EXCEPT !.items[c] = r.self], exc |-> r.exc]
             ELSE ResolveItems([self EXCEPT !.items[c] = r.v], r.mw, c + 1))

\* List.resolve
ListResolve(self, mw) ==
    Bind(ResolveItems(self, mw, 1), LAMBDA r :
        IF r.exc.type # "" THEN [mw |-> r.mw, v |-> None, self |-> r.self, exc |-> r.exc]
        ELSE [mw |-> IF r.self.register THEN AddSchema(r.mw, r.self) ELSE r.mw,
              v |-> r.self, self |-> r.self, exc |-> NoExc])

\* Dict.resolve
DictResolve(self, mw) ==
    Bind(ResolveItems(self, mw, 1), LAMBDA r :
        IF r.exc.type # "" THEN [mw |-> r.mw, v |-> None, self |-> r.self, exc |-> r.exc]
        ELSE [mw |-> IF r.self.register THEN AddSchema(r.mw, r.self) ELSE r.mw,
              v |-> r.self, self |-> r.self, exc |-> NoExc])

\* Ref.resolve with `schema.register = False` on the registered schema
\* itself, returned without a copy.
RefResolveShared(self, mw) ==
    Bind(GetSchema(mw, self.name), LAMBDA schema :
        IF schema = None
        THEN [mw |-> mw, v |-> None, self |-> self,
              exc |-> ResolverError("Schema " \o self.name \o " does not exist")]
        ELSE [mw |-> [mw EXCEPT !.registry[self.name].register = FALSE],
              v |-> [schema EXCEPT !.register = FALSE], self |-> self, exc |-> NoExc])

\* Ref.resolve
RefResolve(self, mw) ==
    Bind(GetSchema(mw, self.name), LAMBDA schema :
        IF schema = None
        THEN [mw |-> mw, v |-> None, self |-> self,
              exc |-> ResolverError("Schema " \o self.name \o " does not exist")]
        ELSE Bind(CopySchema(mw.heap, schema), LAMBDA c :
                 [mw |-> [mw EXCEPT !.heap = c.h],
                  v |-> [c.v EXCEPT !.register = FALSE], self |-> self, exc |-> NoExc]))

\* Patch.convert(spec), [h, v, exc]: the attribute of the spec's type, a new
\* object, made with the other keys of the spec as keyword arguments: a
\* 'default' of the spec is the attribute's default, the same object; a Dict
\* made without one gets a new {}.  For another type, spec['type'] of the
\* message is a KeyError, 'type' having been popped.
PatchConvert(h, spec) ==
    IF spec.type \in {"int", "integer", "str", "string", "bool", "boolean", "dict"}
    THEN Bind([Attribute(CASE spec.type \in {"int", "integer"} -> "Int"
                           [] spec.type \in {"str", "string"} -> "Str"
                           [] spec.type \in {"bool", "boolean"} -> "Bool"
                           [] OTHER -> "Dict", spec.name)
                  EXCEPT !.instance = Len(h) + 1], LAMBDA new :
             IF "default" \in {spec.set[j].k : j \in 1..Len(spec.set)}
             THEN [h |-> Append(h, PyInstance),
                   v |-> [new EXCEPT !.has_default = TRUE,
                                     !.default = spec.set[CHOOSE j \in 1..Len(spec.set) :
                                                             spec.set[j].k = "default"].v],
                   exc |-> NoExc]
             ELSE IF spec.type = "dict"
             THEN [h |-> Append(Append(h, PyInstance), PyDict(<<>>)),
                   v |-> [new EXCEPT !.has_default = TRUE, !.default = VRef(Len(h) + 2)],
                   exc |-> NoExc]
             ELSE [h |-> Append(h, PyInstance), v |-> new, exc |-> NoExc])
    ELSE [h |-> h, v |-> None, exc |-> PyExc("KeyError")]

\* schema.attrs[new.name] = new
SetChild(schema, new) ==
    IF \E j \in 1..Len(schema.items) : schema.items[j].name = new.name
    THEN [schema EXCEPT !.items = [j \in 1..Len(schema.items) |->
                                     IF schema.items[j].name = new.name THEN new
                                     ELSE schema.items[j]]]
    ELSE [schema EXCEPT !.items = Append(schema.items, new)]

\* del schema.attrs[name], for a name that is there.
DelChild(schema, name) ==
    [schema EXCEPT !.items = SelectSeq(schema.items, LAMBDA a : a.name # name)]

\* patch['method'](attr): the callables of the model.
CallMethod(method, attr) ==
    CASE method = "set_required" -> [attr EXCEPT !.required = TRUE]
      [] OTHER -> attr

\* setattr(schema, key, val)
SetAttr(schema, key, val) ==
    CASE key = "update" -> [schema EXCEPT !.update = val]
      [] key = "additional_attrs" -> [schema EXCEPT !.additional_attrs = val]
      [] key = "register" -> [schema EXCEPT !.register = val]
      [] OTHER -> schema

RECURSIVE SetAttrs(_, _, _)
\* for key, val in list(patch.items()): setattr(schema, key, val)
SetAttrs(schema, set, j) ==
    IF j > Len(set) THEN schema
    ELSE SetAttrs(SetAttr(schema, set[j].k, set[j].v), set, j + 1)

\* One operation of Patch.resolve on the copy `schema`, [h, v, exc].
PatchOperation(h, schema, p) ==
    CASE p.operation = "add" ->
           Bind(IF p.isdict THEN PatchConvert(h, p)
                ELSE Bind(CopySchema(h, p.attr), LAMBDA c :
                         [h |-> c.h, v |-> c.v, exc |-> NoExc]), LAMBDA new :
               IF new.exc.type # "" THEN [h |-> new.h, v |-> schema, exc |-> new.exc]
               ELSE [h |-> new.h, v |-> SetChild(schema, new.v), exc |-> NoExc])
      [] p.operation = "rm" ->
           IF AttrsGet(schema, p.name) = {}
           THEN [h |-> h, v |-> schema, exc |-> PyExc("KeyError")]
           ELSE [h |-> h, v |-> DelChild(schema, p.name), exc |-> NoExc]
      [] p.operation = "edit" ->
           IF AttrsGet(schema, p.name) = {}
           THEN [h |-> h, v |-> schema, exc |-> PyExc("KeyError")]
           ELSE [h |-> h,
                 v |-> IF p.method = "" THEN schema
                       ELSE [schema EXCEPT !.items = [j \in 1..Len(schema.items) |->
                                IF schema.items[j].name = p.name
                                THEN CallMethod(p.method, schema.items[j])
                                ELSE schema.items[j]]],
                 exc |-> NoExc]
      [] p.operation = "attr" -> [h |-> h, v |-> SetAttrs(schema, p.set, 1), exc |-> NoExc]
      [] OTHER -> [h |-> h, v |-> schema, exc |-> NoExc]

RECURSIVE PatchOperationsReversed(_, _, _, _)
\* The operations of a Patch applied last first.
PatchOperationsReversed(h, schema, patches, j) ==
    IF j > Len(patches) THEN [h |-> h, v |-> schema, exc |-> NoExc]
    ELSE Bind(PatchOperation(h, schema, patches[Len(patches) + 1 - j]), LAMBDA r :
             IF r.exc.type # "" THEN r
             ELSE PatchOperationsReversed(r.h, r.v, patches, j + 1))

RECURSIVE PatchOperations(_, _, _, _)
\* The loop of Patch.resolve, `for operation, patch in self.patches`, from
\* the j-th pair on.
PatchOperations(h, schema, patches, j) ==
    IF j > Len(patches) THEN [h |-> h, v |-> schema, exc |-> NoExc]
    ELSE Bind(PatchOperation(h, schema, patches[j]), LAMBDA r :
             IF r.exc.type # "" THEN r
             ELSE PatchOperations(r.h, r.v, patches, j + 1))

\* Patch.resolve publishing the copy before it looks at the base's class.
PatchResolveAnyBase(self, mw) ==
    Bind(GetSchema(mw, self.name), LAMBDA schema :
        IF schema = None
        THEN [mw |-> mw, v |-> None, self |-> self,
              exc |-> ResolverError("Schema " \o self.name \o " not found")]
        ELSE Bind(CopySchema(mw.heap, schema), LAMBDA c :
             Bind(AddSchema([mw EXCEPT !.heap = c.h], [c.v EXCEPT !.name = self.newname]),
                  LAMBDA added :
                 IF schema.cls \notin DictClasses
                 THEN [mw |-> added, v |-> None, self |-> self,
                       exc |-> ValueError("Patch non-dict is not allowed")]
                 ELSE [mw |-> added, v |-> [c.v EXCEPT !.name = self.newname],
                       self |-> self, exc |-> NoExc])))

\* Patch.resolve
PatchResolve(self, mw) ==
    Bind(GetSchema(mw, self.name), LAMBDA schema :
        IF schema = None
        THEN [mw |-> mw, v |-> None, self |-> self,
              exc |-> ResolverError("Schema " \o self.name \o " not found")]
        ELSE IF schema.cls \notin DictClasses
        THEN [mw |-> mw, v |-> None, self |-> self,
              exc |-> ValueError("Patch non-dict is not allowed")]
        ELSE Bind(CopySchema(mw.heap, schema), LAMBDA c :
             Bind(PatchOperations(c.h, [c.v EXCEPT !.name = self.newname], self.patches, 1),
                  LAMBDA r :
                 IF r.exc.type # ""
                 THEN [mw |-> [mw EXCEPT !.heap = r.h], v |-> None, self |-> self,
                       exc |-> r.exc]
                 ELSE [mw |-> IF self.register THEN AddSchema([mw EXCEPT !.heap = r.h], r.v)
                              ELSE [mw EXCEPT !.heap = r.h],
                       v |-> r.v, self |-> self, exc |-> NoExc])))

\* p.resolve(middleware): the resolve of p's class.
Resolve(p, mw) ==
    CASE p.cls = "Ref" -> RefResolve(p, mw)
      [] p.cls = "Patch" -> PatchResolve(p, mw)
      [] p.cls = "List" -> ListResolve(p, mw)
      [] p.cls \in DictClasses -> DictResolve(p, mw)
      [] OTHER -> AttributeResolve(p, mw)

RECURSIVE ResolverParams(_, _, _, _)
\* The loop `for p in f.accepts` of resolver from the k-th parameter on;
\* [mw, accepts, exc], accepts being f.accepts afterwards: new_params when
\* the loop ends, else the list as it was, of the objects as they now are.
ResolverParams(mw, accepts, k, new_params) ==
    IF k > Len(accepts) THEN [mw |-> mw, accepts |-> new_params, exc |-> NoExc]
    ELSE IF ~IsSchema(accepts[k])
         THEN [mw |-> mw, accepts |-> accepts,
               exc |-> ResolverError("Invalid parameter definition")]
    ELSE Bind(Resolve(accepts[k], mw), LAMBDA r :
             IF r.exc.type # ""
             THEN [mw |-> r.mw, accepts |-> [accepts EXCEPT ![k] = r.self], exc |-> r.exc]
             ELSE ResolverParams(r.mw, [accepts EXCEPT ![k] = r.self], k + 1,
                                 Append(new_params, r.v)))

\* A member of a service that has no `accepts`.
NoAccepts == <<[cls |-> "", name |-> ""]>>

\* resolver(middleware, f), f.accepts being accepts.
Resolver(mw, accepts) ==
    IF accepts = NoAccepts THEN [mw |-> mw, accepts |-> accepts, exc |-> NoExc]
    ELSE ResolverParams(mw, accepts, 1, <<>>)

\* The longest list of operations of a Patch.
MaxOps == 2

\* Dict('base', Str('s'), Int('n'), register=True)
BaseSchema ==
    [Attribute("Dict", "base") EXCEPT
        !.items = <<[Attribute("Str", "s") EXCEPT !.instance = Instance(11)],
                    [Attribute("Int", "n") EXCEPT !.instance = Instance(12)]>>,
        !.has_default = TRUE, !.default = VRef(12), !.instance = Instance(13),
        !.register = TRUE]

\* Str('leaf', register=True)
LeafSchema == [Attribute("Str", "leaf") EXCEPT !.instance = Instance(14), !.register = TRUE]

\* Dict('wrap', Str('t', register=True), Ref('base'))
WrapSchema ==
    [Attribute("Dict", "wrap") EXCEPT
        !.items = <<[Attribute("Str", "t") EXCEPT !.instance = Instance(15),
                                                  !.register = TRUE],
                    Ref("base")>>,
        !.has_default = TRUE, !.default = VRef(13), !.instance = Instance(16)]

\* List('refs', items=[Ref('base')])
RefsList ==
    [Attribute("List", "refs") EXCEPT !.items = <<Ref("base")>>, !.instance = Instance(17)]

\* A parameter that is no schema: accepts('x').
NotASchema == [cls |-> "object", name |-> "x"]

\* ('add', {'type': 'int', 'name': 'x'})
AddX == Operation("add", TRUE, "int", "x", "", None, <<>>)

\* ('add', Str('s')): a new field for the base's 's'.
AddS ==
    Operation("add", FALSE, "", "", "",
              [Attribute("Str", "s") EXCEPT !.instance = Instance(18)], <<>>)

\* ('add', {'type': 'float', 'name': 'x'})
AddFloat == Operation("add", TRUE, "float", "x", "", None, <<>>)

\* ('add', {'type': 'dict', 'name': 'options', 'default': {}}): the {} of the
\* spec is the object at address 18.
AddOptions == Operation("add", TRUE, "dict", "options", "", None, <<Item("default", VRef(18))>>)

\* ('add', {'type': 'dict', 'name': 'options'})
AddDict == Operation("add", TRUE, "dict", "options", "", None, <<>>)

\* ('rm', {'name': 'x'})
RmX == Operation("rm", TRUE, "", "x", "", None, <<>>)

\* ('rm', {'name': 's'})
RmS == Operation("rm", TRUE, "", "s", "", None, <<>>)

\* ('edit', {'name': 's', 'method': set_required})
EditS == Operation("edit", TRUE, "", "s", "set_required", None, <<>>)

\* ('attr', {'update': True})
AttrUpdate == Operation("attr", TRUE, "", "", "", None, <<Item("update", TRUE)>>)

\* The lists of operations: up to MaxOps of these.
OperationLists ==
    UNION {[1..n -> {AddX, AddS, RmX, RmS, EditS, AttrUpdate}] : n \in 0..MaxOps}

\* The Patches of 'base': with each list of operations, registered.
Patches == {Patch("base", "derived", patches, TRUE) : patches \in OperationLists}

\* Patches of 'base' that are not registered, a Patch of a base that is no
\* Dict, one of a base that no method publishes, and one that adds a field
\* of a type convert does not know.
OtherPatches ==
    {Patch("base", "derived", <<>>, FALSE), Patch("base", "derived", <<AddX, RmS>>, FALSE),
     Patch("leaf", "derived", <<AddX>>, TRUE), Patch("missing", "derived", <<AddX>>, TRUE),
     Patch("base", "derived", <<AddFloat>>, TRUE),
     Patch("base", "derived", <<AddOptions>>, FALSE),
     Patch("base", "derived", <<AddDict, EditS>>, FALSE)}

\* The accepts of a method that publishes.
Publishers == {<<BaseSchema>>, <<BaseSchema, LeafSchema>>}

\* The accepts of a method that refers to what another publishes, or of a
\* member that is no schema or has no accepts.
Referrers ==
    {<<Ref("base")>>, <<Ref("leaf")>>, <<Ref("missing")>>, <<Ref("base"), Ref("base")>>,
     <<RefsList>>, <<WrapSchema>>, <<NotASchema>>, NoAccepts}
      \cup {<<p>> : p \in OtherPatches}

\* The services: a publishing method and a referring method, declared in
\* either order.
Services ==
    {<<p, r>> : p \in Publishers, r \in Referrers}
      \cup {<<r, p>> : p \in Publishers, r \in Referrers}
      \cup {<<<<BaseSchema>>, <<p>>>> : p \in Patches}
      \cup {<<<<p>>, <<BaseSchema>>>> : p \in Patches}

(***************************************************************************)
(* The parameter binder: the wrap of `accepts`.                             *)
(***************************************************************************)
\* The attributes a wrapped method may declare, and the raw values a caller
\* passes for each: one that cleans and validates, one that fails validate,
\* one that fails clean.
BinderAttrs == {DataDict, ModePerm, TagsList}

BinderInputs(attr) ==
    CASE attr = DataDict ->
           {DDict(<<Item("a", DScalar(VInt(5)))>>),
            DDict(<<Item("b", DScalar(VInt(10)))>>),
            DDict(<<Item("a", DScalar(VStr(<<"x">>)))>>)}
      [] attr = ModePerm ->
           {DScalar(VStr(<<"7", "5", "5">>)), DScalar(VStr(<<"9">>)), DScalar(None)}
      [] attr = TagsList ->
           {DList(<<DScalar(VInt(1)), DScalar(VInt(0))>>),
            DList(<<DScalar(VInt(1)), DScalar(VInt(1))>>),
            DScalar(VStr(<<"x">>))}

\* The declared attribute lists: the sequences without repetition of up to
\* MaxParams attributes.
Schemas ==
    UNION {{sch \in [1..n -> BinderAttrs] : \A j, k \in 1..n : j # k => sch[j] # sch[k]}
             : n \in 1..MaxParams}

\* An object that is not a value of the schema: the receiver, the context.
VObj(name) == [t |-> "obj", n |-> 0, s |-> <<name>>]

\* The leading parameters of f: self, then app if f has _pass_app, then job
\* if f has _job.
Leading(pass_app, job) ==
    <<"self">> \o (IF pass_app THEN <<"app">> ELSE <<>>) \o (IF job THEN <<"job">> ELSE <<>>)

\* A wrapped method f with its schema: wrap's args_index, f.__code__'s
\* co_varnames and co_argcount, whether f gives its declared parameters
\* defaults of its own, and whether it is a coroutine function.
Method(schema, pass_app, job, defaults, async) ==
    [accepts |-> schema,
     args_index |-> Len(Leading(pass_app, job)),
     co_varnames |-> Leading(pass_app, job) \o [k \in 1..Len(schema) |-> schema[k].name],
     co_argcount |-> Len(Leading(pass_app, job)) + Len(schema),
     defaults |-> defaults,
     async |-> async]

Methods ==
    {Method(sch, pa, jb, df, as) : sch \in Schemas, pa \in BOOLEAN, jb \in BOOLEAN,
                                   df \in BOOLEAN, as \in BOOLEAN}

NoMethod == Method(<<>>, FALSE, FALSE, FALSE, FALSE)

\* heap: the objects; pc: where the one call in flight stands; raised: the
\* exception it ended with; callHeap: the heap as the caller left it.
\* Of a call through the binder: the wrapped method f, the caller's
\* arguments, the locals of clean_and_validate_args, what was cleaned and
\* validated, and what the body of f received.
\* Of a direct clean or validate: the attribute (subject), its argument
\* (input), what clean returned (output) and what the environment answered
\* to validate (answers).
VARIABLES heap, pc, raised, callHeap,
          f, callArgs, callKwargs, args, kwargs, i, x, verrors, cleaned, validated, body,
          subject, input, output, answers

VARIABLES registry, published, accepts, runs, calls, result, last

resolveVars == <<registry, published, accepts, runs, calls, result, last>>

\* second: the clean of a cleaned value; parent and document: a rendering to
\* JSON schema; data_dict, record and done: the dict given to the conversions
\* of Cron, the dict as it was at first and the conversions made.
VARIABLES second, parent, document, data_dict, record, done

moreVars == <<second, parent, document, data_dict, record, done>>

binderVars == <<f, callArgs, callKwargs, args, kwargs, i, x, verrors, cleaned, validated, body>>

attrVars == <<subject, input, output, answers>>

vars == <<heap, pc, raised, callHeap, binderVars, attrVars, resolveVars, moreVars>>

NoBody == [called |-> FALSE, bound |-> <<>>]

\* No resolve has been called.
NoCall == [operation |-> "", m |-> 0, k |-> 0, registry |-> NoSchemas, published |-> <<>>,
           accepts |-> <<>>, result |-> None]

\* The service has no method that accepts.
InitNoService ==
    /\ registry = NoSchemas
    /\ published = <<>>
    /\ accepts = <<>>
    /\ runs = <<>>
    /\ calls = 0
    /\ result = None
    /\ last = NoCall

\* No cleaned value has been cleaned again and nothing has been rendered.
NoSecond == [ok |-> TRUE, was |-> DScalar(NOT_PROVIDED), v |-> DScalar(NOT_PROVIDED), exc |-> NoExc]

NoDocument == <<>>

InitNoDocument ==
    /\ second = NoSecond
    /\ parent = FALSE
    /\ document = NoDocument

\* No dict has been given to a conversion of Cron.
InitNoRecord ==
    /\ data_dict = DDict(<<>>)
    /\ record = DDict(<<>>)
    /\ done = <<>>

\* Nothing has been called.
InitIdle ==
    /\ heap = InitHeap
    /\ pc = "idle"
    /\ f = NoMethod
    /\ callArgs = <<>>
    /\ callKwargs = PyDict(<<>>)
    /\ callHeap = InitHeap
    /\ args = <<>>
    /\ kwargs = PyDict(<<>>)
    /\ i = 0
    /\ x = 0
    /\ verrors = <<>>
    /\ raised = NoExc
    /\ cleaned = <<>>
    /\ validated = <<>>
    /\ body = NoBody
    /\ subject = Attribute("", "")
    /\ input = NOT_PROVIDED
    /\ output = NOT_PROVIDED
    /\ answers = [q \in {"exists", "isdir", "isfile", "ip", "ipv6", "cron"} |-> FALSE]

Init ==
    /\ InitNoService
    /\ InitNoDocument
    /\ InitNoRecord
    /\ InitIdle

\* The ways of supplying n parameters: a prefix positionally, each of the
\* others by keyword or not at all.
Supplies(n) ==
    {sup \in [1..n -> {"pos", "kw", "absent"}] :
        \A k \in 1..n : sup[k] = "pos" => \A j \in 1..k : sup[j] = "pos"}

\* A caller calls nf(self, <context>, *positional, **keywords).
Call(m, sup, raw) ==
    /\ pc = "idle"
    /\ \E n \in {Len(m.accepts)} : \E pos \in {{k \in 1..n : sup[k] = "pos"}} :
       \E b \in {BuildSeq(heap, raw, 1)} :
           /\ heap' = b.h
           /\ callHeap' = b.h
           /\ callArgs' = [k \in 1..m.args_index |-> VObj(m.co_varnames[k])]
                            \o [k \in 1..Cardinality(pos) |-> b.vs[k]]
           /\ callKwargs' = PyDict(SelectSeq([k \in 1..n |-> Item(m.accepts[k].name, b.vs[k])],
                                             LAMBDA it : \E k \in 1..n :
                                                 sup[k] = "kw" /\ m.accepts[k].name = it.k))
    /\ f' = m
    /\ pc' = IF m.async THEN "coroutine" ELSE "entered"
    /\ UNCHANGED <<args, kwargs, i, x, verrors, raised, cleaned, validated, body, attrVars, resolveVars, moreVars>>

\* The coroutine nf returned is awaited: its body starts.
Await ==
    /\ pc = "coroutine"
    /\ pc' = "entered"
    /\ UNCHANGED <<heap, raised, callHeap, binderVars, attrVars, resolveVars, moreVars>>

\* The argument itself, where clean_and_validate_args takes a deep copy.
ArgsShare(h, v) == [h |-> h, v |-> v]

\* copy.deepcopy of one argument, as clean_and_validate_args applies it to
\* args[args_index:] and to kwargs.
ArgsCopy(h, v) == DeepCopy(h, v)

RECURSIVE CopySeq(_, _, _)
\* ArgsCopy of the values vs[j..], one after the other: [h, vs].
CopySeq(h, vs, j) ==
    IF j > Len(vs) THEN [h |-> h, vs |-> <<>>]
    ELSE Bind(ArgsCopy(h, vs[j]), LAMBDA c :
             Bind(CopySeq(c.h, vs, j + 1), LAMBDA r : [h |-> r.h, vs |-> <<c.v>> \o r.vs]))

\* clean_and_validate_args, its first three lines.
CopyArgs ==
    /\ pc = "entered"
    /\ \E a \in {CopySeq(heap, SubSeq(callArgs, f.args_index + 1, Len(callArgs)), 1)} :
       \E k \in {CopySeq(a.h, [j \in 1..Len(callKwargs.items) |-> callKwargs.items[j].v], 1)} :
           /\ args' = SubSeq(callArgs, 1, f.args_index) \o a.vs
           /\ kwargs' = PyDict([j \in 1..Len(callKwargs.items) |->
                                  Item(callKwargs.items[j].k, k.vs[j])])
           /\ heap' = k.h
    /\ verrors' = <<>>
    /\ i' = 0
    /\ pc' = "positional"
    /\ UNCHANGED <<f, callArgs, callKwargs, callHeap, x, raised, cleaned, validated, body, attrVars, resolveVars, moreVars>>

\* `value = attr.clean(value)` then `try: attr.validate(value) except
\* ValidationErrors as e: verrors.extend(e)`: the heap after, the cleaned
\* value, the exception that escapes (exc), the entries for verrors.
CleanAndValidate(attr, h, value, env) ==
    Bind(Clean(attr, h, value), LAMBDA r :
        IF ~r.ok THEN [h |-> r.h, v |-> r.v, exc |-> r.exc, errors |-> <<>>, validated |-> FALSE]
        ELSE Bind(Validate(attr, r.h, r.v, env), LAMBDA e :
                 [h |-> r.h, v |-> r.v,
                  exc |-> IF e.type = "ValidationErrors" THEN NoExc ELSE e,
                  errors |-> IF e.type = "ValidationErrors" THEN e.errors ELSE <<>>,
                  validated |-> TRUE]))

\* What the model records of one clean: the attribute (its place in
\* nf.accepts), the raw value, whether clean returned, and its result.
CleanRecord(a, h, value, r) ==
    [attr |-> a, raw |-> Deep(h, value), ok |-> r.validated, out |-> Deep(r.h, r.v)]

\* One turn of `for _ in args[args_index:]`, or the loop's end.
Positional ==
    /\ pc = "positional"
    /\ IF i < Len(args) - f.args_index
       THEN IF i + 1 > Len(f.accepts)
            THEN /\ raised' = PyExc("IndexError")
                 /\ pc' = "done"
                 /\ UNCHANGED <<heap, args, i, x, verrors, cleaned, validated, moreVars>>
            ELSE \E value \in {args[f.args_index + i + 1]} :
                 \E r \in {CleanAndValidate(f.accepts[i + 1], heap, value, NoEnv)} :
                     /\ heap' = r.h
                     /\ cleaned' = Append(cleaned, CleanRecord(i + 1, heap, value, r))
                     /\ validated' = IF r.validated THEN Append(validated, i + 1) ELSE validated
                     /\ args' = IF r.validated
                                THEN [args EXCEPT ![f.args_index + i + 1] = r.v] ELSE args
                     /\ verrors' = Extend(verrors, r.errors)
                     /\ raised' = r.exc
                     /\ i' = IF r.exc.type = "" THEN i + 1 ELSE i
                     /\ pc' = IF r.exc.type = "" THEN "positional" ELSE "done"
                     /\ x' = x
       ELSE /\ pc' = "keyword"
            /\ x' = i + 1
            /\ UNCHANGED <<heap, args, i, verrors, raised, cleaned, validated, moreVars>>
    /\ UNCHANGED <<f, callArgs, callKwargs, callHeap, kwargs, body, attrVars, resolveVars, moreVars>>

\* One turn of `for x in list(range(i + 1, f.__code__.co_argcount))`, or the
\* loop's end.
Keyword ==
    /\ pc = "keyword"
    /\ IF x < f.co_argcount
       THEN \E kwarg \in {f.co_varnames[x + 1]} : \E given \in {kwarg \in Keys(kwargs)} :
                IF given /\ i + 1 > Len(f.accepts)
                THEN /\ raised' = PyExc("IndexError")
                     /\ pc' = "done"
                     /\ UNCHANGED <<heap, kwargs, i, x, verrors, cleaned, validated, moreVars>>
                ELSE IF given \/ Len(f.accepts) >= i + f.args_index
                THEN \E value \in {IF given THEN GetItem(kwargs, kwarg) ELSE NOT_PROVIDED} :
                     \E r \in {CleanAndValidate(f.accepts[i + 1], heap, value, NoEnv)} :
                         /\ heap' = r.h
                         /\ cleaned' = Append(cleaned, CleanRecord(i + 1, heap, value, r))
                         /\ validated' = IF r.validated THEN Append(validated, i + 1)
                                         ELSE validated
                         /\ kwargs' = IF r.validated THEN SetItem(kwargs, kwarg, r.v) ELSE kwargs
                         /\ verrors' = Extend(verrors, r.errors)
                         /\ raised' = r.exc
                         /\ i' = i + 1
                         /\ x' = IF r.exc.type = "" THEN x + 1 ELSE x
                         /\ pc' = IF r.exc.type = "" THEN "keyword" ELSE "done"
                ELSE /\ i' = i + 1
                     /\ x' = x + 1
                     /\ UNCHANGED <<heap, kwargs, pc, verrors, raised, cleaned, validated, moreVars>>
       ELSE /\ pc' = "finish"
            /\ UNCHANGED <<heap, kwargs, i, x, verrors, raised, cleaned, validated, moreVars>>
    /\ UNCHANGED <<f, callArgs, callKwargs, callHeap, args, body, attrVars, resolveVars, moreVars>>

\* `if verrors: raise verrors`, else `return args, kwargs`.
Finish ==
    /\ pc = "finish"
    /\ IF Len(verrors) > 0
       THEN /\ raised' = ValidationErrors(verrors)
            /\ pc' = "done"
       ELSE /\ pc' = "invoke"
            /\ UNCHANGED raised
    /\ UNCHANGED <<heap, f, callArgs, callKwargs, callHeap, args, kwargs, i, x, verrors,
                   cleaned, validated, body, attrVars, resolveVars, moreVars>>

\* Python binds f(*args, **kwargs): a parameter gets its positional value,
\* else its keyword value, else f's own default; anything else is a
\* TypeError and the body does not run.
BindError ==
    \/ Len(args) > f.co_argcount
    \/ \E k \in Keys(kwargs) : ~Contains(f.co_varnames, k)
    \/ \E p \in 1..f.co_argcount :
          \/ p <= Len(args) /\ f.co_varnames[p] \in Keys(kwargs)
          \/ /\ p > Len(args)
             /\ f.co_varnames[p] \notin Keys(kwargs)
             /\ ~(f.defaults /\ p > f.args_index)

\* The value f's body sees for its parameter p.
Bound(p) ==
    IF p <= Len(args) THEN Deep(heap, args[p])
    ELSE IF f.co_varnames[p] \in Keys(kwargs) THEN Deep(heap, GetItem(kwargs, f.co_varnames[p]))
    ELSE DScalar(VObj("default"))

\* `return f(*args, **kwargs)`, or `return await f(*args, **kwargs)`.
Invoke ==
    /\ pc = "invoke"
    /\ IF BindError
       THEN /\ raised' = PyExc("TypeError")
            /\ UNCHANGED body
       ELSE /\ body' = [called |-> TRUE, bound |-> [p \in 1..f.co_argcount |-> Bound(p)]]
            /\ UNCHANGED raised
    /\ pc' = "done"
    /\ UNCHANGED <<heap, f, callArgs, callKwargs, callHeap, args, kwargs, i, x, verrors,
                   cleaned, validated, attrVars, resolveVars, moreVars>>

\* A call by any caller, of any wrapped method, with any supply of raw values.
CallAny ==
    /\ pc = "idle"
    /\ \E m \in Methods : \E sup \in Supplies(Len(m.accepts)) :
          \E raw \in [1..Len(m.accepts) -> UNION {BinderInputs(a) : a \in BinderAttrs}] :
              /\ \A k \in 1..Len(m.accepts) :
                     IF sup[k] = "absent"
                     THEN raw[k] = DScalar(None)
                     ELSE raw[k] \in BinderInputs(m.accepts[k])
              /\ Call(m, sup, raw)

Next == CallAny \/ Await \/ CopyArgs \/ Positional \/ Keyword \/ Finish \/ Invoke

Spec == Init /\ [][Next]_vars

(***************************************************************************)
(* clean and validate called on one attribute, as the binder and the       *)
(* attributes themselves call them.                                        *)
(***************************************************************************)
\* The attributes under test.
Attrs ==
    {AnyAttr, StrName, StrDefault, StrNull, StrNonEmpty, IntA, IntB, IntPort, BoolFlag,
     DirAttr, FileAttr, IpAttr, IpNetwork, IpCidr, IpZone, ModePerm,
     TagsList, PortsList, MixedList, EitherList, RowsList, ModesList,
     DataDict, InnerDict, OuterDict, UpdateDict, ExtraDict, OptsDict, BothDict, Schedule,
     StrChecked, CronNull, InterfaceUpdate, FloatRatio,
     StrRequired, BoolRequired, FloatRequired, ListRequired, IntChoice, StrChoice, StrLevel,
     StrNullChoice, IntNull, BoolNull, ListNull, DictNull,
     DirChecked, ListChecked, DictChecked, CronChecked}

\* The input strings: every string of up to MaxStrLen characters that are an
\* octal digit, another digit or a letter, and an octal number above 777, an
\* address with a prefix length and an address with a zone index.
Chars == {"7", "9", "x"}

StrPool ==
    UNION {[1..n -> Chars] : n \in 0..MaxStrLen}
        \cup {<<"7", "7", "7", "7">>, <<"7", "/", "7">>, <<"7", "%", "x">>}

ScalarInputs ==
    {NOT_PROVIDED, None, VBool(TRUE), VBool(FALSE)}
        \cup {VInt(n) : n \in 0..MaxInt} \cup {VStr(str) : str \in StrPool}

\* The input lists: up to MaxListLen elements.
ListElems ==
    {DScalar(VInt(n)) : n \in 0..MaxInt}
        \cup {DScalar(VStr(<<"x">>)), DScalar(VStr(<<"9">>)), DScalar(VStr(<<>>)), DDict(<<>>)}

ListInputs == {DList(elems) : elems \in UNION {[1..n -> ListElems] : n \in 0..MaxListLen}}

\* A key that is absent, or present with one of the values.
Field(key, values) == {<<>>} \cup {<<Item(key, v)>> : v \in values}

\* The input dicts: over the children of the Dicts under test and a key that
\* none declares, and over the fields of a Cron.
DictInputs ==
    {DDict(a \o b \o c \o z) :
        a \in Field("a", {DScalar(VInt(5)), DScalar(VStr(<<"x">>)), DScalar(VStr(<<"7">>))}),
        b \in Field("b", {DScalar(VInt(0)), DScalar(None)}),
        c \in Field("inner", {DDict(<<>>), DDict(<<Item("c", DScalar(VInt(0)))>>),
                              DScalar(VStr(<<"x">>))}),
        z \in Field("z", {DScalar(VInt(0))})}
      \cup {DDict(sv) : sv \in Field("s", {DScalar(VInt(5)), DScalar(VStr(<<"x">>))})}
      \cup {DDict(m \o hr) :
              m \in Field("minute", {DScalar(VStr(<<"7">>)), DScalar(VStr(<<>>))}),
              hr \in Field("hour", {DScalar(VInt(0)), DScalar(VStr(<<"x">>))})}

\* The input lists of addresses.
AddressLists ==
    {DList(elems) : elems \in UNION {[1..n -> {DScalar(VStr(<<"7">>)), DScalar(VStr(<<"9">>))}] :
                                        n \in 1..MaxListLen}}

\* The input dicts of an interface update.
InterfaceInputs ==
    {DDict(a \o b) : a \in Field("aliases", AddressLists),
                     b \in Field("failover_aliases", AddressLists)}

Inputs ==
    {DScalar(v) : v \in ScalarInputs} \cup ListInputs \cup DictInputs \cup InterfaceInputs

\* What the file system, ipaddress and croniter may answer, as the answers
\* to: does every path exist, is it a directory, is it a file, is every
\* string an address, an IPv6 address, is every expression cron syntax.
Answers ==
    {a \in [{"exists", "isdir", "isfile", "ip", "ipv6", "cron"} -> BOOLEAN] :
        /\ a.isdir => a.exists
        /\ a.isfile => a.exists /\ ~a.isdir
        /\ a.ipv6 => a.ip}

\* The environment of these answers.
Env(a) ==
    [exists |-> IF a.exists THEN StrPool ELSE {},
     isdir |-> IF a.isdir THEN StrPool ELSE {},
     isfile |-> IF a.isfile THEN StrPool ELSE {},
     ip |-> IF a.ip THEN StrPool ELSE {},
     ipv6 |-> IF a.ipv6 THEN StrPool ELSE {},
     cron |-> IF a.cron THEN [1..Len(FIELDS) -> StrPool \cup {<<"*">>}] ELSE {}]

\* value = attr.clean(value), for any attribute and any input.
CleanAny ==
    /\ pc = "idle"
    /\ \E attr \in Attrs : \E d \in Inputs :
       \E b \in {Build(heap, d)} : \E r \in {Clean(attr, b.h, b.v)} :
           /\ subject' = attr
           /\ input' = b.v
           /\ callHeap' = b.h
           /\ heap' = r.h
           /\ output' = r.v
           /\ raised' = r.exc
           /\ pc' = IF r.ok THEN "cleaned" ELSE "failed"
    /\ UNCHANGED <<binderVars, resolveVars, answers, moreVars>>

\* attr.validate(value) of the value clean returned.
ValidateCleaned ==
    /\ pc = "cleaned"
    /\ \E a \in Answers :
           /\ answers' = a
           /\ raised' = Validate(subject, heap, output, Env(a))
    /\ pc' = "validated"
    /\ UNCHANGED <<heap, callHeap, binderVars, resolveVars, subject, input, output, moreVars>>

\* attr.clean(value) of the value clean returned: `was` is that value before
\* the call.
CleanAgain ==
    /\ pc = "cleaned"
    /\ \E r \in {Clean(subject, heap, output)} :
           /\ second' = [ok |-> r.ok, was |-> Deep(heap, output),
                         v |-> IF r.ok THEN Deep(r.h, r.v) ELSE DScalar(NOT_PROVIDED),
                         exc |-> r.exc]
           /\ heap' = r.h
    /\ pc' = "cleaned again"
    /\ UNCHANGED <<raised, callHeap, binderVars, resolveVars, attrVars,
                   parent, document, data_dict, record, done>>

NextAttribute == CleanAny \/ ValidateCleaned \/ CleanAgain

SpecAttribute == Init /\ [][NextAttribute]_vars

(***************************************************************************)
(* Rendering to JSON schema: to_json_schema of any attribute, top-level or *)
(* as the child of a parent.                                               *)
(***************************************************************************)
\* Any('anything'), List('anys', items=[Any('item')]),
\* Dict('measure', Float('ratio'), Int('count', required=True))
AnyThing == Attribute("Any", "anything")

AnyList == [Attribute("List", "anys") EXCEPT !.items = <<Attribute("Any", "item")>>]

MeasureDict ==
    [Attribute("Dict", "measure") EXCEPT
        !.items = <<Attribute("Float", "ratio"),
                    [Attribute("Int", "count") EXCEPT !.required = TRUE]>>]

\* The attributes rendered: those cleaned and these, each required or not,
\* with and without a description, with and without a title of its own.
JsonAttrs ==
    {[a EXCEPT !.required = r, !.description = d, !.title = IF t THEN "Title" ELSE a.name] :
        a \in Attrs \cup {AnyThing, AnyList, MeasureDict},
        r \in BOOLEAN, d \in {"", "about"}, t \in BOOLEAN}

\* attr.to_json_schema() and attr.to_json_schema(parent), for any attribute.
ToJsonSchemaAny ==
    /\ pc = "idle"
    /\ \E attr \in JsonAttrs : \E nested \in BOOLEAN :
       \E r \in {ToJsonSchema(attr, nested)} :
           /\ subject' = attr
           /\ parent' = nested
           /\ document' = r.v
           /\ raised' = r.exc
    /\ pc' = "rendered"
    /\ UNCHANGED <<heap, callHeap, binderVars, resolveVars, input, output, answers,
                   second, data_dict, record, done>>

NextJsonSchema == ToJsonSchemaAny

SpecJsonSchema == Init /\ [][NextJsonSchema]_vars

(***************************************************************************)
(* The conversions of Cron applied to a record, one after the other.       *)
(***************************************************************************)
\* The most conversions applied to one record.
MaxConversions == 2

\* The value kept under each field of a schedule and under each db field.
CronValues == <<VStr(<<"7">>), VStr(<<"9">>), VStr(<<"x">>), VStr(<<"7", "7">>), VInt(0)>>

\* The dicts over a subset of the five names, each name with its value.
DictsOver(names) ==
    {DDict(a \o b \o c \o d \o e) :
        a \in Field(names[1], {DScalar(CronValues[1])}),
        b \in Field(names[2], {DScalar(CronValues[2])}),
        c \in Field(names[3], {DScalar(CronValues[3])}),
        d \in Field(names[4], {DScalar(CronValues[4])}),
        e \in Field(names[5], {DScalar(CronValues[5])})}

\* The records: with or without an id; with a schedule that is None or a
\* dict over the fields, or flattened, or both.
CronRecords ==
    UNION {{DDict(o \o <<Item("schedule", sch)>>) : sch \in DictsOver(FIELDS) \cup {DScalar(None)}}
             \cup {DDict(o \o fl.items) : fl \in DictsOver(DbFields)}
             \cup {DDict(o \o <<Item("dayweek", DScalar(VStr(<<"x">>))),
                                Item("schedule", DDict(<<Item("dow", DScalar(VInt(0)))>>))>>),
                   DDict(o \o <<Item("minute", DScalar(VStr(<<"9">>))),
                                Item("schedule", DDict(<<>>))>>)} :
           o \in Field("id", {DScalar(VInt(1))})}

InitCron ==
    /\ InitNoService
    /\ InitNoDocument
    /\ InitIdle
    /\ data_dict \in CronRecords
    /\ record = data_dict
    /\ done = <<>>

\* Cron.convert_schedule_to_db_format(data_dict)
ToDbFormat ==
    /\ Len(done) < MaxConversions
    /\ data_dict' = ConvertScheduleToDbFormat(data_dict)
    /\ done' = Append(done, "convert_schedule_to_db_format")
    /\ UNCHANGED <<heap, pc, raised, callHeap, binderVars, attrVars, resolveVars,
                   second, parent, document, record>>

\* Cron.convert_db_format_to_schedule(data_dict)
ToSchedule ==
    /\ Len(done) < MaxConversions
    /\ data_dict' = ConvertDbFormatToSchedule(data_dict)
    /\ done' = Append(done, "convert_db_format_to_schedule")
    /\ UNCHANGED <<heap, pc, raised, callHeap, binderVars, attrVars, resolveVars,
                   second, parent, document, record>>

NextCron == ToDbFormat \/ ToSchedule

SpecCron == InitCron /\ [][NextCron]_vars

(***************************************************************************)
(* Resolution of the methods of a service against the middleware's         *)
(* schemas: resolver on a method, and resolve of a Ref or a Patch of a     *)
(* method called directly.  `last` records the call made and the state it  *)
(* was made in, with what the call before it returned; callHeap is the     *)
(* heap it was made in.                                                    *)
(***************************************************************************)
\* The most calls of resolver on one method.
MaxRuns == 2

\* The most direct calls of resolve.
MaxCalls == 2

\* The state once the methods of a service are declared.
InitResolve ==
    /\ heap = InitHeap
    /\ callHeap = InitHeap
    /\ pc = "idle"
    /\ raised = NoExc
    /\ f = NoMethod
    /\ callArgs = <<>>
    /\ callKwargs = PyDict(<<>>)
    /\ args = <<>>
    /\ kwargs = PyDict(<<>>)
    /\ i = 0
    /\ x = 0
    /\ verrors = <<>>
    /\ cleaned = <<>>
    /\ validated = <<>>
    /\ body = NoBody
    /\ subject = Attribute("", "")
    /\ input = NOT_PROVIDED
    /\ output = NOT_PROVIDED
    /\ answers = [q \in {"exists", "isdir", "isfile", "ip", "ipv6", "cron"} |-> FALSE]
    /\ registry = NoSchemas
    /\ published = <<>>
    /\ InitNoDocument
    /\ InitNoRecord
    /\ accepts \in Services
    /\ runs = [m \in 1..Len(accepts) |-> 0]
    /\ calls = 0
    /\ result = None
    /\ last = NoCall

\* The middleware as the state has it.
Middleware == [registry |-> registry, published |-> published, heap |-> heap]

\* The record of a call made in this state.
Calling(operation, m, k) ==
    [operation |-> operation, m |-> m, k |-> k, registry |-> registry,
     published |-> published, accepts |-> accepts, result |-> result]

\* resolver(middleware, f) on a method of the service.
CallResolver ==
    /\ pc = "idle"
    /\ \E m \in 1..Len(accepts) :
           /\ runs[m] < MaxRuns
           /\ \E r \in {Resolver(Middleware, accepts[m])} :
                  /\ registry' = r.mw.registry
                  /\ published' = r.mw.published
                  /\ heap' = r.mw.heap
                  /\ accepts' = [accepts EXCEPT ![m] = r.accepts]
                  /\ raised' = r.exc
           /\ runs' = [runs EXCEPT ![m] = @ + 1]
           /\ last' = Calling("resolver", m, 0)
    /\ callHeap' = heap
    /\ result' = None
    /\ UNCHANGED <<pc, calls, binderVars, attrVars, moreVars>>

\* p.resolve(middleware) on a Ref or a Patch of a method.
CallResolve(cls) ==
    /\ pc = "idle"
    /\ calls < MaxCalls
    /\ \E m \in 1..Len(accepts) : \E k \in 1..Len(accepts[m]) :
           /\ accepts[m][k].cls = cls
           /\ \E r \in {Resolve(accepts[m][k], Middleware)} :
                  /\ registry' = r.mw.registry
                  /\ published' = r.mw.published
                  /\ heap' = r.mw.heap
                  /\ result' = r.v
                  /\ raised' = r.exc
           /\ last' = Calling(cls, m, k)
    /\ callHeap' = heap
    /\ calls' = calls + 1
    /\ UNCHANGED <<pc, accepts, runs, binderVars, attrVars, moreVars>>

\* Ref.resolve called on a Ref.
CallRefResolve == CallResolve("Ref")

\* Patch.resolve called on a Patch.
CallPatchResolve == CallResolve("Patch")

NextResolve == CallResolver \/ CallRefResolve \/ CallPatchResolve

SpecResolve == InitResolve /\ [][NextResolve]_vars

(***************************************************************************)
(* The binder's contract.                                                  *)
(***************************************************************************)
\* The value the caller supplied for the k-th declared parameter: the
\* positional value, else the keyword value of its name, else NOT_PROVIDED.
Supplied(k) ==
    IF f.args_index + k <= Len(callArgs) THEN Deep(callHeap, callArgs[f.args_index + k])
    ELSE IF f.accepts[k].name \in Keys(callKwargs)
         THEN Deep(callHeap, GetItem(callKwargs, f.accepts[k].name))
    ELSE DScalar(NOT_PROVIDED)

\* The declared parameters clean was called for, in the order of the calls.
CleanedAttrs == [j \in 1..Len(cleaned) |-> cleaned[j].attr]

\* The call is over: the binder raised, or f returned or could not be entered.
Over == pc = "done"

\* C1: in a call with several declared parameters, a clean that fails with
\* Error does not stop the cleaning of the later declared parameters: when
\* the call is over, clean has been called for every declared parameter.
C1_CleanFailureDoesNotSuppress ==
    (Over /\ f.args_index = 1 /\ Len(callArgs) - 1 <= Len(f.accepts)
          /\ \E j \in 1..Len(cleaned) : ~cleaned[j].ok)
        => \A k \in 1..Len(f.accepts) : Contains(CleanedAttrs, k)

\* C2: the body of the wrapped method runs only after every declared
\* parameter has been cleaned and validated without error, and it receives
\* the cleaned values in place of the raw ones.
C2_BodyOnlyAfterCleanValidate ==
    body.called =>
        /\ raised = NoExc
        /\ Len(verrors) = 0
        /\ \A k \in 1..Len(f.accepts) :
               \E j \in 1..Len(cleaned) :
                   /\ cleaned[j].attr = k
                   /\ cleaned[j].ok
                   /\ Contains(validated, k)
                   /\ body.bound[f.args_index + k] = cleaned[j].out

\* C3: when every clean of a call succeeds, validate runs on every declared
\* parameter in declaration order, and the call raises one ValidationErrors
\* holding the entries of every parameter whose validate failed, or nothing
\* when none failed.
C3_ValidationFailuresCollected ==
    (Over /\ f.args_index = 1 /\ Len(callArgs) - 1 <= Len(f.accepts)
          /\ \A j \in 1..Len(cleaned) : cleaned[j].ok)
        => /\ validated = [k \in 1..Len(f.accepts) |-> k]
           /\ raised.type \in {"", "ValidationErrors"}
           /\ raised.type = "ValidationErrors" <=> Len(verrors) > 0
           /\ raised.type = "ValidationErrors" => raised.errors = verrors
           /\ body.called <=> Len(verrors) = 0

\* C4: whatever the number of context parameters and the way of supplying
\* the declared ones, attribute k is cleaned with the value supplied for the
\* k-th declared parameter, and no context parameter is cleaned, rebound or
\* added to the keyword arguments.
C4_BindsDeclaredParameters ==
    /\ \A j \in 1..Len(cleaned) : cleaned[j].raw = Supplied(cleaned[j].attr)
    /\ \A k \in 1..Len(f.co_varnames) : k <= f.args_index => f.co_varnames[k] \notin Keys(kwargs)
    /\ \A k \in 1..Len(args) : k <= f.args_index => args[k] = callArgs[k]
    /\ pc = "finish" => CleanedAttrs = [k \in 1..Len(f.accepts) |-> k]

\* C5: a call through the binder leaves the objects the caller passed, as
\* positional or as keyword arguments, as they were when the call was made.
C5_CallerArgumentsUnchanged ==
    /\ \A k \in 1..Len(callArgs) : Deep(heap, callArgs[k]) = Deep(callHeap, callArgs[k])
    /\ \A k \in 1..Len(callKwargs.items) :
           Deep(heap, callKwargs.items[k].v) = Deep(callHeap, callKwargs.items[k].v)

\* A call is over in which clean rewrote a list or a dict the caller passed:
\* the copy differs from what the caller still holds.
C5_Witness ==
    /\ Over
    /\ \E j \in 1..Len(cleaned) :
           /\ cleaned[j].ok
           /\ cleaned[j].raw.t \in {"dict", "list"}
           /\ cleaned[j].out # cleaned[j].raw
           /\ cleaned[j].raw = Supplied(cleaned[j].attr)

\* The inputs of C6: {"b": 10} and {"a": "x"}.
C6_MissingA == DDict(<<Item("b", DScalar(VInt(10)))>>)

C6_NotAnInteger == DDict(<<Item("a", DScalar(VStr(<<"x">>)))>>)

\* A call, now over, of a method declared with the one attribute
\* Dict('data', Int('a', required=True), Int('b', default=10)), given d.
C6_Call(d) ==
    /\ Over
    /\ f.accepts = <<DataDict>>
    /\ f.args_index = 1
    /\ Supplied(1) = d

\* An entry of a ValidationErrors for the child a of the Dict.
C6_EntryForA(e) == e.attribute \in {"a", "data.a"}

\* C6: the call given {"b": 10}, and the call given {"a": "x"}, raise a
\* ValidationErrors with an entry for a, whose message is "Not an integer"
\* in the second.
C6_CleanFailureIsValidationErrors ==
    /\ C6_Call(C6_MissingA) =>
           /\ raised.type = "ValidationErrors"
           /\ \E j \in 1..Len(raised.errors) : C6_EntryForA(raised.errors[j])
    /\ C6_Call(C6_NotAnInteger) =>
           /\ raised.type = "ValidationErrors"
           /\ \E j \in 1..Len(raised.errors) :
                  C6_EntryForA(raised.errors[j]) /\ raised.errors[j].errmsg = "Not an integer"

(***************************************************************************)
(* The contract of clean and validate.                                     *)
(***************************************************************************)
\* clean has returned, or raised.
CleanOver == pc \in {"cleaned", "failed"}

\* The input and the result of clean with every reference followed.
Before == Deep(callHeap, input)

After == Deep(heap, output)

DeepKeys(d) == {d.items[j].k : j \in 1..Len(d.items)}

DeepGet(d, key) == d.items[CHOOSE j \in 1..Len(d.items) : d.items[j].k = key].v

Min(S) == CHOOSE m \in S : \A o \in S : m <= o

RECURSIVE PyEq(_, _)
\* Python's == on two values with every reference followed: lists element by
\* element, dicts key by key whatever the order of the keys, scalars by
\* ScalarEq.
PyEq(a, b) ==
    IF a.t = "list" /\ b.t = "list"
    THEN /\ Len(a.items) = Len(b.items)
         /\ \A j \in 1..Len(a.items) : PyEq(a.items[j].v, b.items[j].v)
    ELSE IF a.t = "dict" /\ b.t = "dict"
    THEN /\ DeepKeys(a) = DeepKeys(b)
         /\ \A k \in DeepKeys(a) : PyEq(DeepGet(a, k), DeepGet(b, k))
    ELSE IF a.t \in {"list", "dict"} \/ b.t \in {"list", "dict"} THEN FALSE
    ELSE ScalarEq(a, b)

\* The candidates of the List under test whose clean accepts element j of
\* the input list.
C7_Accepting(j) ==
    {c \in 1..Len(subject.items) :
        Clean(subject.items[c], callHeap, callHeap[input.n].items[j].v).ok}

\* The elements of the input list that no candidate accepts.
C7_Rejected == {j \in 1..Len(callHeap[input.n].items) : C7_Accepting(j) = {}}

\* C7: List.clean with several candidates replaces each element by the
\* result of the first candidate whose clean accepts it, and raises an Error
\* with the index of the element only when no candidate accepts it.
C7_FirstAcceptingCandidate ==
    (CleanOver /\ subject.cls = "List" /\ Len(subject.items) > 1 /\ IsList(callHeap, input))
        => IF C7_Rejected = {}
           THEN /\ pc = "cleaned"
                /\ \A j \in 1..Len(callHeap[input.n].items) :
                       heap[output.n].items[j].v =
                           Clean(subject.items[Min(C7_Accepting(j))], callHeap,
                                 callHeap[input.n].items[j].v).v
           ELSE /\ pc = "failed"
                /\ raised.type = "Error"
                /\ raised.index = Min(C7_Rejected) - 1

\* clean(NOT_PROVIDED) of an attribute that has a default is over.
C8_Case == CleanOver /\ input = NOT_PROVIDED /\ subject.has_default

\* The default is None or a value of the attribute's own type, one that the
\* clean of its class returns as it is.
C8_OwnType(a) ==
    /\ ~a.has_enum
    /\ \/ a.default = None
       \/ a.cls = "Attribute"
       \/ a.cls \in StrClasses /\ a.default.t = "str" /\ (a.empty \/ Len(a.default.s) > 0)
       \/ a.cls = "Int" /\ a.default.t = "int"
       \/ a.cls = "Bool" /\ a.default.t = "bool"
       \/ /\ a.cls = "List" /\ IsList(InitHeap, a.default)
          /\ Len(a.items) = 0 \/ Len(InitHeap[a.default.n].items) = 0
          /\ a.empty \/ Len(InitHeap[a.default.n].items) > 0

C8_Added(a) ==
    {c \in 1..Len(a.items) :
        /\ a.items[c].name \notin Keys(InitHeap[a.default.n])
        /\ a.items[c].required \/ a.items[c].has_default}

C9_Case == CleanOver /\ subject.cls \in DictClasses /\ IsDict(callHeap, input)

\* The declared children absent from the input that are required or have a
\* default.
C9_ToAdd ==
    {c \in 1..Len(subject.items) :
        /\ subject.items[c].name \notin DeepKeys(Before)
        /\ subject.items[c].required \/ subject.items[c].has_default}

RECURSIVE C9_NotProvided(_)
\* What cleaning NOT_PROVIDED gives for a child with a default of its own
\* type: the default, and for a Dict the default with its own children that
\* have defaults added in the same way.
C9_NotProvided(a) ==
    IF a.cls \notin DictClasses THEN Deep(InitHeap, a.default)
    ELSE DDict(Deep(InitHeap, a.default).items
                 \o [j \in 1..Len(SelectSeq(a.items, LAMBDA ch : ch.has_default)) |->
                       Item(SelectSeq(a.items, LAMBDA ch : ch.has_default)[j].name,
                            C9_NotProvided(SelectSeq(a.items, LAMBDA ch : ch.has_default)[j]))])

\* C9: Dict.clean not in update mode adds every declared child that is
\* absent from the input and is required or has a default, with what cleaning
\* NOT_PROVIDED gives for it (so it raises for a required child without a
\* default), and adds no other key: {"a": 5} against a (required) and b
\* (default 10) gives {"a": 5, "b": 10}.  In update mode it adds no child and
\* an absent required child raises nothing.
C9_FillsAbsentChildren ==
    C9_Case =>
        /\ (~subject.update /\ pc = "cleaned")
               => /\ DeepKeys(After) = DeepKeys(Before)
                                          \cup {subject.items[c].name : c \in C9_ToAdd}
                  /\ \A c \in C9_ToAdd :
                         /\ subject.items[c].has_default
                         /\ DeepGet(After, subject.items[c].name)
                                = C9_NotProvided(subject.items[c])
        /\ (~subject.update /\ \E c \in C9_ToAdd : ~subject.items[c].has_default)
               => pc = "failed" /\ raised.type = "Error"
        /\ (subject = DataDict /\ Before = DDict(<<Item("a", DScalar(VInt(5)))>>))
               => /\ pc = "cleaned"
                  /\ After = DDict(<<Item("a", DScalar(VInt(5))), Item("b", DScalar(VInt(10)))>>)
        /\ subject.update
               => /\ pc = "cleaned" => DeepKeys(After) = DeepKeys(Before)
                  /\ raised.errmsg # "attribute required"

\* Dict('outer', Int('a', required=True), Dict('inner', Int('c', default=1)))
\* has cleaned {"a": 5} into {"a": 5, "inner": {"c": 1}}.
C9_Witness ==
    /\ C9_Case
    /\ pc = "cleaned"
    /\ subject = OuterDict
    /\ Before = DDict(<<Item("a", DScalar(VInt(5)))>>)
    /\ After = DDict(<<Item("a", DScalar(VInt(5))),
                       Item("inner", DDict(<<Item("c", DScalar(VInt(1)))>>))>>)

\* C10: validate of every attribute variant signals a failure only by
\* raising a ValidationErrors: it returns, or it raises a ValidationErrors,
\* never an Error or another exception.
C10_OnlyValidationErrors ==
    pc = "validated" => raised.type \in {"", "ValidationErrors"}

\* C11: validate(None) of a nullable attribute returns: it raises nothing,
\* and no check and no validator of the attribute is run on None.
C11_ValidateNoneReturns ==
    (pc = "validated" /\ subject.null /\ output = None) => raised = NoExc

\* C20: clean(None) of an attribute whose null flag is not set raises
\* Error(name, "null not allowed"), whether or not the attribute has a
\* default, and writes nothing.
C20_NullNotAllowed ==
    (CleanOver /\ input = None /\ ~subject.null)
        => /\ pc = "failed"
           /\ raised = Error(subject.name, "null not allowed")
           /\ heap = callHeap

\* clean(None) of Dict('data', ...), which has the default {} and no null
\* flag, has raised.
C20_Witness ==
    /\ CleanOver
    /\ input = None
    /\ subject = DataDict
    /\ raised = Error("data", "null not allowed")

\* Python's == on two cleaned values of heap h.
C18_Equal(h, a, b) ==
    IF a.t = "ref" /\ b.t = "ref" THEN Deep(h, a) = Deep(h, b) ELSE ScalarEq(a, b)

\* The entries of the raised errors that say element j (from 0) of the
\* subject is not unique.
C18_Reports(j) ==
    {e \in 1..Len(raised.errors) :
        /\ raised.errors[e].attribute = subject.name \o "." \o ToString(j)
        /\ raised.errors[e].errmsg = "This value is not unique."}

\* C18: List.validate of a unique=True list reports exactly one error, at
\* "<list name>.<index>", for each element equal to an earlier element, and
\* none for any other element.
C18_OneErrorPerDuplicate ==
    (pc = "validated" /\ subject.cls = "List" /\ subject.unique /\ output.t = "ref")
        => \A j \in 1..Len(heap[output.n].items) :
               Cardinality(C18_Reports(j - 1)) =
                   IF \E k \in 1..(j - 1) : C18_Equal(heap, heap[output.n].items[k].v,
                                                      heap[output.n].items[j].v)
                   THEN 1 ELSE 0

\* validate of an interface update carrying both lists is over.
C19_Case ==
    /\ pc = "validated"
    /\ subject = InterfaceUpdate
    /\ output.t = "ref"
    /\ {"aliases", "failover_aliases"} \subseteq Keys(heap[output.n])

\* The elements of the list under the key of the validated dict.
C19_Elems(key) == heap[GetItem(heap[output.n], key).n].items

\* The raised errors have an entry with this path and message.
C19_Reported(attribute, errmsg) ==
    \E e \in 1..Len(raised.errors) :
        raised.errors[e].attribute = attribute /\ raised.errors[e].errmsg = errmsg

\* C19: Dict.validate validates every present child even after an earlier
\* child failed.  Of two sibling lists, each repeated element of the
\* unique=True list is reported at "<dict name>.<list name>.<index>", and
\* each element of the other list that is not an address is reported in the
\* same ValidationErrors, whatever the first list raised.
C19_SiblingsAllValidated ==
    C19_Case =>
        /\ \A j \in 1..Len(C19_Elems("aliases")) :
               (\E k \in 1..(j - 1) :
                    C19_Elems("aliases")[k].v = C19_Elems("aliases")[j].v)
                   <=> C19_Reported("interface_update.aliases." \o ToString(j - 1),
                                    "This value is not unique.")
        /\ \A j \in 1..Len(C19_Elems("failover_aliases")) :
               ~answers.ip
                   <=> C19_Reported("interface_update.failover_aliases." \o ToString(j - 1)
                                        \o ".address",
                                    "does not appear to be an IPv4 or IPv6 address")
        /\ raised.type = IF Len(raised.errors) > 0 THEN "ValidationErrors" ELSE ""

\* The first list has failed, on a repeated element, and the second list's
\* element is reported too.
C19_Witness ==
    /\ C19_Case
    /\ C19_Reported("interface_update.aliases.1", "This value is not unique.")
    /\ C19_Reported("interface_update.failover_aliases.0.address",
                    "does not appear to be an IPv4 or IPv6 address")

\* C17: after clean and validate, with any input, the attribute tree is as
\* constructed: nothing has been set on an attribute object, no stored
\* default is modified, and the value clean returned holds no object of a
\* stored default.  (Names, flags, children and candidate items are written
\* by no operation of the model, as by none of the code.)
C17_AttributeTreeUnchanged ==
    (CleanOver \/ pc = "validated")
        => /\ \A k \in 1..Instances : heap[Instance(k)] = InitHeap[Instance(k)]
           /\ \A a \in 1..Len(StoredDefaults) : heap[a] = InitHeap[a]
           /\ pc # "failed" => Reach(heap, output) \cap (1..Len(StoredDefaults)) = {}

(***************************************************************************)
(* The contract of resolution.                                             *)
(***************************************************************************)
\* The Ref or Patch the last call resolved.
Resolved == last.accepts[last.m][last.k]

RECURSIVE Shape(_, _)
\* What a schema is apart from the identity of its objects: its fields, its
\* default by value, and the shapes of its children.
Shape(h, schema) ==
    IF schema.cls \in {"Ref", "Patch", "object"} THEN schema
    ELSE [schema EXCEPT !.instance = 0, !.default = Deep(h, schema.default),
                        !.items = [j \in 1..Len(schema.items) |-> Shape(h, schema.items[j])]]

RECURSIVE Objects(_, _)
\* The addresses of the objects of a schema: the attribute, its stored
\* default and what it holds, and those of its children.
Objects(h, schema) ==
    IF schema.cls \in {"Ref", "Patch", "object"} THEN {}
    ELSE {schema.instance} \cup Reach(h, schema.default)
           \cup UNION {Objects(h, schema.items[j]) : j \in 1..Len(schema.items)}

\* C14: Ref.resolve raises ResolverError when the name is not registered;
\* else it returns a deep copy of the registered schema, equal to it but for
\* a cleared register flag and made of new objects only.  Either way it
\* publishes nothing: the registry and the log of publications are as
\* before, at every call on the same Ref.
C14_RefResolve ==
    last.operation = "Ref"
        => /\ registry = last.registry
           /\ published = last.published
           /\ \A a \in 1..Len(callHeap) : heap[a] = callHeap[a]
           /\ IF Resolved.name \notin DOMAIN last.registry
              THEN raised.type = "ResolverError" /\ result = None
              ELSE /\ raised = NoExc
                   /\ ~result.register
                   /\ last.registry[Resolved.name].register
                   /\ Shape(heap, result)
                        = Shape(callHeap, [last.registry[Resolved.name]
                                              EXCEPT !.register = FALSE])
                   /\ Objects(heap, result) \cap (1..Len(callHeap)) = {}

\* The same Ref has been resolved a second time, its name being registered.
C14_Witness ==
    /\ last.operation = "Ref"
    /\ calls = 2
    /\ "base" \in DOMAIN last.registry
    /\ Resolved = Ref("base")
    /\ result.name = "base"

\* A Patch of the registered Dict 'base' has been resolved directly.
C15_Case ==
    /\ last.operation = "Patch"
    /\ Resolved.name = "base"
    /\ "base" \in DOMAIN last.registry

\* The name of the field an add, rm or edit is about.
C15_Field(p) == IF p.operation = "add" /\ ~p.isdict THEN p.attr.name ELSE p.name

\* The adds and rms of field n among the first j operations.
C15_AddRm(n, j) ==
    {k \in 1..j : /\ Resolved.patches[k].operation \in {"add", "rm"}
                  /\ C15_Field(Resolved.patches[k]) = n}

\* Field n is there after the first j operations, each having seen all
\* before it: the last add or rm of n was an add, or there was none and the
\* base has n.
C15_Has(n, j) ==
    IF C15_AddRm(n, j) = {}
    THEN AttrsGet(last.registry["base"], n) # {}
    ELSE \E k \in C15_AddRm(n, j) :
             /\ \A o \in C15_AddRm(n, j) : o <= k
             /\ Resolved.patches[k].operation = "add"

\* Operation j fails: an rm or edit of a field that is not there by then, or
\* an add of a type that convert does not know.
C15_Fails(j) ==
    \/ /\ Resolved.patches[j].operation \in {"rm", "edit"}
       /\ ~C15_Has(Resolved.patches[j].name, j - 1)
    \/ /\ Resolved.patches[j].operation = "add"
       /\ Resolved.patches[j].isdict
       /\ Resolved.patches[j].type
              \notin {"int", "integer", "str", "string", "bool", "boolean", "dict"}

\* Field n was edited by set_required after it was last added.
C15_Required(n) ==
    \E j \in 1..Len(Resolved.patches) :
        /\ Resolved.patches[j].operation = "edit"
        /\ Resolved.patches[j].name = n
        /\ Resolved.patches[j].method = "set_required"
        /\ \A k \in C15_AddRm(n, Len(Resolved.patches)) : k < j

\* C15: Patch.resolve applies its operations in declaration order to one
\* copy of the base, each seeing the effect of all before it.  It raises
\* exactly when some operation fails in its turn; else the fields of the
\* result are those the operations leave when taken left to right (an rm
\* after an add of the same name leaves none, an add after an rm leaves
\* one), a field is required exactly when it was edited so after its last
\* add, the result is named newname, and the base is as before.
C15_OperationsInOrder ==
    C15_Case =>
        /\ raised = NoExc <=> \A j \in 1..Len(Resolved.patches) : ~C15_Fails(j)
        /\ last.registry["base"] = GetSchema(Middleware, "base")
        /\ raised = NoExc =>
              /\ result.name = Resolved.newname
              /\ \A n \in {"s", "n", "x", "options"} :
                     /\ AttrsGet(result, n) # {} <=> C15_Has(n, Len(Resolved.patches))
                     /\ \A c \in AttrsGet(result, n) :
                            result.items[c].required <=> C15_Required(n)
              /\ \A c \in 1..Len(result.items) :
                     result.items[c].name \in {"s", "n", "x", "options"}
              /\ result.update <=> AttrUpdate \in {Resolved.patches[j] :
                                                      j \in 1..Len(Resolved.patches)}
              /\ Resolved.patches = <<AddX, RmX>> => AttrsGet(result, "x") = {}
              /\ Resolved.patches = <<RmS, AddS>> => AttrsGet(result, "s") # {}

\* An rm has removed the field an earlier add of the same Patch added.
C15_Witness ==
    /\ C15_Case
    /\ Resolved.patches = <<AddX, RmX>>
    /\ raised = NoExc
    /\ AttrsGet(result, "x") = {}
    /\ AttrsGet(result, "s") # {}

\* A Patch has been resolved directly.
C16_Case == last.operation = "Patch"

\* The base is registered and is no Dict.
C16_NotADict ==
    /\ Resolved.name \in DOMAIN last.registry
    /\ last.registry[Resolved.name].cls \notin DictClasses

\* Nothing was published, copied or returned.
C16_NothingDone ==
    /\ registry = last.registry
    /\ published = last.published
    /\ heap = callHeap
    /\ result = None

\* C16: Patch.resolve raises ResolverError when the base name is not
\* registered and also when the registered base is no Dict, in both cases
\* before any operation is applied and with nothing published.
C16_FailsWithResolverError ==
    (C16_Case /\ (Resolved.name \notin DOMAIN last.registry \/ C16_NotADict))
        => raised.type = "ResolverError" /\ C16_NothingDone

\* C16, amended: Patch.resolve raises ResolverError when the base name is
\* not registered, and ValueError when the registered base is no Dict; in
\* both cases before any operation is applied and with nothing published.
C16_FailsBeforeOperations ==
    C16_Case =>
        /\ Resolved.name \notin DOMAIN last.registry
               => raised.type = "ResolverError" /\ C16_NothingDone
        /\ C16_NotADict
               => /\ raised = ValueError("Patch non-dict is not allowed")
                  /\ C16_NothingDone

\* A Patch of the registered Str 'leaf' has been resolved.
C16_Witness ==
    /\ C16_Case
    /\ C16_NotADict
    /\ Resolved.name = "leaf"
    /\ raised.type = "ValueError"

RECURSIVE Publishes(_)
\* The names a parameter publishes when it is resolved: those of the
\* attributes of its tree that have register set.
Publishes(p) ==
    IF p.cls \in {"Ref", "Patch", "object", ""} THEN {}
    ELSE (IF p.register THEN {p.name} ELSE {})
           \cup UNION {Publishes(p.items[j]) : j \in 1..Len(p.items)}

\* The names the methods other than m publish, as declared.
C12_PublishedByOthers(m) ==
    UNION {UNION {Publishes(last.accepts[o][k]) : k \in 1..Len(last.accepts[o])} :
              o \in 1..Len(last.accepts) \ {m}}

\* resolver has run for the first time on a method whose parameters are
\* Refs and Patches of names that another method publishes.
C12_Case ==
    /\ last.operation = "resolver"
    /\ runs[last.m] = 1
    /\ \A k \in 1..Len(last.accepts[last.m]) :
           /\ last.accepts[last.m][k].cls \in {"Ref", "Patch"}
           /\ last.accepts[last.m][k].name \in C12_PublishedByOthers(last.m)

\* C12: a method whose Refs and Patches name schemas that a register=True
\* attribute of another method publishes resolves, whether it is resolved
\* before or after that method: no ResolverError, and for Refs no error at
\* all, the Refs being replaced by schemas.
C12_AnyOrderResolves ==
    C12_Case =>
        /\ raised.type # "ResolverError"
        /\ (\A k \in 1..Len(last.accepts[last.m]) : last.accepts[last.m][k].cls = "Ref")
               => /\ raised = NoExc
                  /\ \A k \in 1..Len(accepts[last.m]) : accepts[last.m][k].cls # "Ref"

RECURSIVE IsResolved(_)
\* A parameter that is an attribute with no Ref or Patch left in its tree.
IsResolved(p) ==
    /\ p.cls \notin {"Ref", "Patch", "object", ""}
    /\ \A j \in 1..Len(p.items) : IsResolved(p.items[j])

\* resolver has run again on a method whose accepts list was resolved.
C13_Case ==
    /\ last.operation = "resolver"
    /\ runs[last.m] >= 2
    /\ \A k \in 1..Len(last.accepts[last.m]) : IsResolved(last.accepts[last.m][k])

\* C13: resolving what is already resolved changes nothing: resolver run
\* again on a method whose accepts list was resolved returns the same tree
\* and publishes nothing more, so the registry is what it was after the
\* first resolution.
C13_ResolveIdempotent ==
    C13_Case =>
        /\ raised = NoExc
        /\ accepts = last.accepts
        /\ published = last.published
        /\ registry = last.registry

\* The required children without default that are absent from the input dict.
C21_Missing ==
    {c \in 1..Len(subject.items) :
        /\ subject.items[c].required
        /\ ~subject.items[c].has_default
        /\ subject.items[c].name \notin DeepKeys(Before)}

\* Every key of the input dict is accepted: it is declared and its value
\* cleans, or it is not declared and the Dict takes additional keys.
C21_KeysPass ==
    \A j \in 1..Len(callHeap[input.n].items) :
        LET it == callHeap[input.n].items[j]
            got == AttrsGet(subject, it.k)
        IN  IF got = {} THEN subject.additional_attrs
            ELSE \A c \in got : Clean(subject.items[c], callHeap, it.v).ok

\* C21: clean(NOT_PROVIDED) of an attribute that is required and has no
\* default raises Error(name, "attribute required") and writes nothing; and
\* Dict.clean, not in update mode, of a dict that lacks a required child
\* without default fails with an Error, which is
\* Error(child name, "attribute required") for the first such child once the
\* keys that are present have been accepted.
C21_AttributeRequired ==
    /\ (CleanOver /\ input = NOT_PROVIDED /\ subject.required /\ ~subject.has_default)
           => /\ pc = "failed"
              /\ raised = Error(subject.name, "attribute required")
              /\ heap = callHeap
    /\ (C9_Case /\ ~subject.update /\ C21_Missing # {})
           => /\ pc = "failed"
              /\ raised.type = "Error"
              /\ C21_KeysPass
                    => raised = Error(subject.items[Min(C21_Missing)].name, "attribute required")

\* Dict('outer', Int('a', required=True), Dict('inner', ...)).clean of
\* {"inner": {}} has raised Error('a', 'attribute required').
C21_Witness ==
    /\ C9_Case
    /\ subject = OuterDict
    /\ Before = DDict(<<Item("inner", DDict(<<>>))>>)
    /\ raised = Error("a", "attribute required")

\* The keys of the input dict that the Dict under test does not declare.
C22_Unknown == {k \in DeepKeys(Before) : AttrsGet(subject, k) = {}}

\* C22: Dict.clean of a dict with a key that is not a declared child raises
\* an Error and returns nothing when additional_attrs is False; when it is
\* True and clean returns, every such key is in the result with the value it
\* had.
C22_UnknownKeys ==
    (C9_Case /\ C22_Unknown # {})
        => IF subject.additional_attrs
           THEN pc = "cleaned"
                    => \A k \in C22_Unknown :
                           k \in DeepKeys(After) /\ DeepGet(After, k) = DeepGet(Before, k)
           ELSE pc = "failed" /\ raised.type = "Error"

\* Dict('data', Int('a', required=True), Int('b', default=10)).clean of
\* {"a": 5, "z": 0} has raised Error('z', 'Field was not expected').
C22_Witness ==
    /\ C9_Case
    /\ subject = DataDict
    /\ Before = DDict(<<Item("a", DScalar(VInt(5))), Item("z", DScalar(VInt(0)))>>)
    /\ raised = Error("z", "Field was not expected")

\* Dict('extra', Int('b', default=10), additional_attrs=True).clean of
\* {"z": 0} has returned {"z": 0, "b": 10}.
C22_WitnessKept ==
    /\ C9_Case
    /\ subject = ExtraDict
    /\ pc = "cleaned"
    /\ After = DDict(<<Item("z", DScalar(VInt(0))), Item("b", DScalar(VInt(10)))>>)

\* v in self.enum
C26_InEnum(v) == \E e \in 1..Len(subject.enum) : ScalarEq(v, subject.enum[e])

\* What clean makes of the input when the attribute has no enum: the coerced
\* form of the input.
C26_Coerced == Clean([subject EXCEPT !.has_enum = FALSE], callHeap, input)

\* C26: for a Str or Int with an enum, a value clean returns is a member of
\* the enum, and an input whose coerced form is a member of the enum is
\* accepted: Int with enum [1, 7] accepts "7", Str with enum ["1", "x"]
\* accepts 1.
C26_EnumOfCoerced ==
    (CleanOver /\ subject.cls \in {"Str", "Int"} /\ subject.has_enum)
        => /\ pc = "cleaned" => C26_InEnum(output)
           /\ (C26_Coerced.ok /\ C26_InEnum(C26_Coerced.v)) => pc = "cleaned"

\* C27: clean(None) of an attribute with null set returns None: it does not
\* fail, and the result is not the default.
C27_NoneStaysNone ==
    (CleanOver /\ input = None /\ subject.null) => (pc = "cleaned" /\ output = None)

\* C30: validate of a value that is not None runs every validator of the
\* attribute: when a validator rejects the value, a ValidationErrors is raised
\* that has an entry with the validator's message under the attribute's name,
\* whatever the attribute's own checks find.
C30_ValidatorsRun ==
    (pc = "validated" /\ output # None)
        => \A j \in 1..Len(subject.validators) :
               Deep(heap, output) \in subject.validators[j].rejects
                   => /\ raised.type = "ValidationErrors"
                      /\ \E e \in 1..Len(raised.errors) :
                             /\ raised.errors[e].attribute = subject.name
                             /\ raised.errors[e].errmsg = subject.validators[j].errmsg

\* C29: clean of a value that clean returned succeeds and returns a value
\* equal to it.
C29_CleanIdempotent ==
    pc = "cleaned again" => (second.ok /\ PyEq(second.v, second.was))

\* A top-level or nested rendering of an attribute of one of the classes has
\* returned.
C23_Case ==
    /\ pc = "rendered"
    /\ raised = NoExc
    /\ subject.cls \in {"Str", "Int", "Bool", "Float", "UnixPerm", "List", "Dict"}

\* C23: the type of the rendered document is the bare type when the
\* attribute is required, and a list of types that has "null" when it is not.
C23_NullWhenNotRequired ==
    C23_Case
        => /\ "type" \in DOMAIN document
           /\ IF subject.required THEN ~document.type.list
              ELSE /\ document.type.list
                   /\ \E j \in 1..Len(document.type.of) : document.type.of[j] = "null"

\* C24: a top-level rendering of an attribute of any class returns a
\* document that has the title, the description when one is set and the
\* _required_ marker; a nested rendering that returns has none of the three.
C24_HeadingOnlyTopLevel ==
    (pc = "rendered" /\ subject.cls # "Attribute")
        => IF ~parent
           THEN /\ raised = NoExc
                /\ "title" \in DOMAIN document /\ document.title = subject.title
                /\ subject.description # ""
                      => /\ "description" \in DOMAIN document
                         /\ document.description = subject.description
                /\ "_required_" \in DOMAIN document
                /\ document["_required_"] = subject.required
           ELSE raised = NoExc
                    => {"title", "description", "_required_"} \cap DOMAIN document = {}

\* A record with a schedule that is a dict over the five fields and without
\* a flattened key of its own.
C25_ScheduleRecord(d) ==
    /\ "schedule" \in Keys(d)
    /\ GetItem(d, "schedule").t = "dict"
    /\ Keys(GetItem(d, "schedule")) \subseteq {FIELDS[j] : j \in 1..Len(FIELDS)}
    /\ Keys(d) \cap {DbFields[j] : j \in 1..Len(DbFields)} = {}

\* A flattened record: one that has no schedule entry.
C25_FlatRecord(d) == "schedule" \notin Keys(d)

\* The flattened record d holds what the record r holds: no schedule, each
\* field of r's schedule under its db name (dom under daymonth, dow under
\* dayweek), no other db name, and the other keys of r as they were.
C25_Flattened(d, r) ==
    /\ "schedule" \notin Keys(d)
    /\ \A j \in 1..Len(FIELDS) :
           IF FIELDS[j] \in Keys(GetItem(r, "schedule"))
           THEN /\ DbFields[j] \in Keys(d)
                /\ GetItem(d, DbFields[j]) = GetItem(GetItem(r, "schedule"), FIELDS[j])
           ELSE DbFields[j] \notin Keys(d)
    /\ \A k \in Keys(r) \ {"schedule"} : k \in Keys(d) /\ GetItem(d, k) = GetItem(r, k)
    /\ Keys(d) \subseteq (Keys(r) \ {"schedule"}) \cup {DbFields[j] : j \in 1..Len(DbFields)}

\* C25: the conversions of Cron are inverse to each other.  Of a record r
\* with a schedule dict over the fields and no flattened key,
\* convert_schedule_to_db_format makes the flattened record of r, and
\* convert_db_format_to_schedule then makes a record equal to r; of a
\* flattened record, convert_db_format_to_schedule followed by
\* convert_schedule_to_db_format makes a record equal to it.
C25_ConversionsInverse ==
    /\ (done = <<"convert_schedule_to_db_format">> /\ C25_ScheduleRecord(record))
           => C25_Flattened(data_dict, record)
    /\ (/\ done = <<"convert_schedule_to_db_format", "convert_db_format_to_schedule">>
        /\ C25_ScheduleRecord(record))
           => PyEq(data_dict, record)
    /\ (/\ done = <<"convert_db_format_to_schedule", "convert_schedule_to_db_format">>
        /\ C25_FlatRecord(record))
           => PyEq(data_dict, record)

\* {"id": 1, "schedule": {"dom": "x", "dow": 0}} has been flattened and
\* restored.
C25_Witness ==
    /\ done = <<"convert_schedule_to_db_format", "convert_db_format_to_schedule">>
    /\ record = DDict(<<Item("id", DScalar(VInt(1))),
                        Item("schedule", DDict(<<Item("dom", DScalar(VStr(<<"x">>))),
                                                 Item("dow", DScalar(VInt(0)))>>))>>)
    /\ PyEq(data_dict, record)

\* A Ref or a Patch has been resolved directly.
C28_Case == last.operation \in {"Ref", "Patch"}

\* A value that resolve returned is a schema.
C28_IsSchema(v) == v # None

\* C28: a resolve of a Ref or of a Patch leaves every schema that it does
\* not publish itself as the registry had it, with each of its objects; the
\* schema it returns has no object of the registered base, and none of the
\* schema that the resolve before it returned.
C28_BaseUntouched ==
    C28_Case
        => /\ \A n \in DOMAIN last.registry :
                  (Resolved.cls = "Patch" => n # Resolved.newname)
                      => /\ n \in DOMAIN registry
                         /\ registry[n] = last.registry[n]
                         /\ \A a \in Objects(callHeap, last.registry[n]) : heap[a] = callHeap[a]
           /\ (C28_IsSchema(result) /\ Resolved.name \in DOMAIN registry)
                  => Objects(heap, result) \cap Objects(heap, registry[Resolved.name]) = {}
           /\ (C28_IsSchema(result) /\ C28_IsSchema(last.result))
                  => Objects(heap, result) \cap Objects(heap, last.result) = {}
====
